---- MODULE Spec2Model ----
(***************************************************************************)
(* BasisMind decision pipeline: scoring -> overrides -> book modulation    *)
(* -> report (src/src/scoring.py, overrides.py, book.py, engine.py), and   *)
(* the premium normalizer (src/src/premium.py).                            *)
(*                                                                         *)
(* Numbers.  The Python code works on floats.  Here every market input,    *)
(* book field, sizing and delta is an integer number of hundredths         *)
(* (12.36 is 1236), every component score an integer number of 1/600 of a  *)
(* point and the aggregate score an integer number of 1/60000 of a point:  *)
(* with inputs that carry two decimals every linear map and the weighted   *)
(* sum are then exact.  The arithmetic is the exact rational one; binary   *)
(* floating-point error of the last bit is not modelled.                   *)
(* An optional value (float | None, Override | None, str | None) is the    *)
(* empty tuple for None and a one-element tuple for a value.               *)
(***************************************************************************)
EXTENDS Integers, Sequences, FiniteSets, TLC

VARIABLES
    inputs,     \* the MarketInputs of the pending run_decision_engine call
    book,       \* its book argument: None or a BookState
    arg,        \* the argument a pending call of one of the pure functions
                \* is made with (an aggregate score, component scores, ...)
    pc,         \* "call" before the function ran, "done" after it returned
    stages,     \* what run_decision_engine computed on the way:
                \* scoring, override_eval, modulated (None before)
    result,     \* what the call returned (None before)
    engine,     \* a DecisionEngine object: None before it is constructed,
                \* then its fields _book and _last_report
    history,    \* every (inputs, book in effect, report returned) of the
                \* runs made so far
    database,   \* the SQLite tables market_data, data_quality_log and
                \* pipeline_runs
    fetched     \* the sources whose fetch the last DataPipeline.run called,
                \* in call order

vars ==
    <<inputs, book, arg, pc, stages, result, engine, history, database,
      fetched>>

----------------------------------------------------------------------------
\* Optional values

None == <<>>

Some(x) == <<x>>

IsNone(x) == x = <<>>

Val(x) == x[1]

----------------------------------------------------------------------------
\* Units

\* hundredths per unit: market inputs, book fields, sizing, delta
H == 10 * 10

\* component-score units per point
CU == 6 * H

\* aggregate-score units per point (a weight in percent times a component)
SU == H * CU

Max(a, b) == IF a >= b THEN a ELSE b

Min(a, b) == IF a <= b THEN a ELSE b

Abs(a) == IF a < 0 THEN -a ELSE a

\* n / d for d # 0, exact on every value the model forms (d divides n)
Quot(n, d) == IF d > 0 THEN n \div d ELSE (-n) \div (-d)

\* Python round(x, k) / format(x, ".kf"): x to the nearest multiple of q,
\* a tie going to the even multiple
RoundTo(x, q) ==
    LET f == x \div q
        r == x - f * q
    IN  IF 2 * r < q THEN f * q
        ELSE IF 2 * r > q THEN (f + 1) * q
        ELSE IF f % 2 = 0 THEN f * q ELSE (f + 1) * q

----------------------------------------------------------------------------
\* config.py

LINEUP_DROP_OVERRIDE_THRESHOLD == -10
PREMIUM_THRESHOLD_BAIXO == 40
PREMIUM_THRESHOLD_ALTO == 80
CRITICAL_SPREAD_THRESHOLD == 15

LINEUP_TREND_FORTE_QUEDA == -15
LINEUP_TREND_FORTE_ALTA == 15
COMPETITIVENESS_MUITO_BARATO == -20
COMPETITIVENESS_MUITO_CARO == 20
\* DEMAND_Z_FORTE = 1.5 and CAMBIO_FORTE_THRESHOLD = 3.0, in hundredths
DEMAND_Z_FORTE == 150
CAMBIO_FORTE_THRESHOLD == 300

\* the weights 0.30, 0.25, 0.20, 0.15, 0.10 in percent
SCORING_WEIGHT_LINEUP == 30
SCORING_WEIGHT_PREMIUM == 25
SCORING_WEIGHT_COMPETITIVENESS == 20
SCORING_WEIGHT_DEMAND == 15
SCORING_WEIGHT_CAMBIO == 10

SCORING_FISICO_MUITO_FORTE == 80
SCORING_FISICO_FORTE == 65
SCORING_FISICO_FRACO == 35
SCORING_FISICO_MUITO_FRACO == 20

HEDGE_PERCENTIL_MUITO_ALTO == 80
HEDGE_PERCENTIL_ALTO == 65
HEDGE_PERCENTIL_BAIXO == 35
HEDGE_PERCENTIL_MUITO_BAIXO == 20

BOOK_HEDGE_TOLERANCE_PP == 20

DEFAULT_LIMITE_LONG_PCT == 80
DEFAULT_LIMITE_SHORT_PCT == -50
DEFAULT_HEDGE_META_PCT == 60

----------------------------------------------------------------------------
\* premium.py.  A date is <<year, month, day>>; a call either returns a value
\* or raises an exception.

SAFRA_MONTHS == {3, 4, 5, 6, 7}

MIN_HISTORICAL_SAMPLES == 30

Raise(exception) == [raised |-> exception]

Return(value) == [returned |-> value]

Raised(outcome) == "raised" \in DOMAIN outcome

\* round(n / d, 0) for d > 0: the nearest integer, a tie going to the even one
RoundQuot(n, d) ==
    LET q == n \div d
        r == n - q * d
    IN  IF 2 * r < d THEN q
        ELSE IF 2 * r > d THEN q + 1
        ELSE IF q % 2 = 0 THEN q ELSE q + 1

get_regime(dt) == IF dt[2] \in SAFRA_MONTHS THEN "safra" ELSE "entressafra"

\* mutant: the samples equal to the value not counted
calculate_percentile_no_ties(value, historical) ==
    IF historical = <<>>
    THEN Raise("ValueError")
    ELSE LET count_below ==
                 Cardinality({i \in 1..Len(historical) : historical[i] < value})
         IN  Return(RoundQuot(2 * count_below * 100 * H, 2 * Len(historical)))

\* (count_below + 0.5 * count_equal) / len(historical) * 100, rounded to two
\* decimals: the result in hundredths
calculate_percentile(value, historical) ==
    IF historical = <<>>
    THEN Raise("ValueError")
    ELSE LET count_below ==
                 Cardinality({i \in 1..Len(historical) : historical[i] < value})
             count_equal ==
                 Cardinality({i \in 1..Len(historical) : historical[i] = value})
         IN  Return(RoundQuot((2 * count_below + count_equal) * 100 * H,
                              2 * Len(historical)))

\* CLASSIFICATION_THRESHOLDS walked in order, lower <= percentile < upper
classify_premium(percentile) ==
    IF 0 <= percentile /\ percentile < 20 * H THEN "muito_baixo"
    ELSE IF 20 * H <= percentile /\ percentile < 40 * H THEN "baixo"
    ELSE IF 40 * H <= percentile /\ percentile < 60 * H THEN "neutro"
    ELSE IF 60 * H <= percentile /\ percentile < 80 * H THEN "alto"
    ELSE "muito_alto"

\* normalize_premium: its outcome and whether the insufficient-history
\* warning was logged on the way
normalize_premium(dt, premium, historical_by_regime) ==
    IF IsNone(premium)
    THEN [outcome |-> Raise("ValueError"), warned |-> FALSE]
    ELSE LET regime == get_regime(dt)
             warned == Len(historical_by_regime) < MIN_HISTORICAL_SAMPLES
             percentile == calculate_percentile(Val(premium),
                                                historical_by_regime)
         IN  IF Raised(percentile)
             THEN [outcome |-> percentile, warned |-> warned]
             ELSE [outcome |-> Return(
                       [date |-> dt,
                        premium_raw |-> Val(premium),
                        regime |-> regime,
                        percentile |-> percentile.returned,
                        classification |->
                            classify_premium(percentile.returned),
                        historical_count |-> Len(historical_by_regime)]),
                   warned |-> warned]

----------------------------------------------------------------------------
\* auxiliaries.py: the logistics flag.  Days and the loading rate are in
\* hundredths; the reason text is the sequence of the entries "; " joins.

WAIT_TIME_THRESHOLD_DAYS == 15

WAIT_TIME_CONSECUTIVE_WEEKS == 2

\* LOADING_RATE_THRESHOLD = 0.70, in hundredths
LOADING_RATE_THRESHOLD == 70

\* the dataclass LogisticsFlag
LogisticsFlag(is_active, reason, manual_event) ==
    [is_active |-> is_active, reason |-> reason, manual_event |-> manual_event]

\* mutant: the wait trigger asks for more than two consecutive weeks
compute_logistics_flag_strict_weeks(wait_time_days, wait_time_weeks_above, loading_rate, manual_event) ==
    LET reasons ==
            (IF /\ ~IsNone(wait_time_days)
                /\ Val(wait_time_days) > WAIT_TIME_THRESHOLD_DAYS * H
                /\ wait_time_weeks_above > WAIT_TIME_CONSECUTIVE_WEEKS
             THEN <<<<"espera_navios", WAIT_TIME_THRESHOLD_DAYS,
                      wait_time_weeks_above>>>>
             ELSE <<>>)
            \o (IF ~IsNone(loading_rate)
                   /\ Val(loading_rate) < LOADING_RATE_THRESHOLD
                THEN <<<<"taxa_embarque", Val(loading_rate)>>>>
                ELSE <<>>)
            \o (IF ~IsNone(manual_event) /\ Val(manual_event) # ""
                THEN <<<<"evento_manual", Val(manual_event)>>>>
                ELSE <<>>)
    IN  LogisticsFlag(Len(reasons) > 0,
                      IF reasons # <<>> THEN Some(reasons) ELSE None,
                      manual_event)

\* if manual_event: None and "" are both falsy
compute_logistics_flag(wait_time_days, wait_time_weeks_above, loading_rate, manual_event) ==
    LET reasons ==
            (IF /\ ~IsNone(wait_time_days)
                /\ Val(wait_time_days) > WAIT_TIME_THRESHOLD_DAYS * H
                /\ wait_time_weeks_above >= WAIT_TIME_CONSECUTIVE_WEEKS
             THEN <<<<"espera_navios", WAIT_TIME_THRESHOLD_DAYS,
                      wait_time_weeks_above>>>>
             ELSE <<>>)
            \o (IF ~IsNone(loading_rate)
                   /\ Val(loading_rate) < LOADING_RATE_THRESHOLD
                THEN <<<<"taxa_embarque", Val(loading_rate)>>>>
                ELSE <<>>)
            \o (IF ~IsNone(manual_event) /\ Val(manual_event) # ""
                THEN <<<<"evento_manual", Val(manual_event)>>>>
                ELSE <<>>)
    IN  LogisticsFlag(Len(reasons) > 0,
                      IF reasons # <<>> THEN Some(reasons) ELSE None,
                      manual_event)

----------------------------------------------------------------------------
\* config.py, database.py, validators.py, pipeline.py: data ingestion.
\* A cell of a fetched row is missing (Python None), a number, or a text
\* that float() cannot convert.  Dates are strings.

Missing == [kind |-> "none", n |-> 0]

Number(n) == [kind |-> "num", n |-> n]

Text == [kind |-> "text", n |-> 0]

\* thousandths per unit: missing_rate
PerMille == 10 * H

ColumnSpec(name, min_val, max_val) ==
    [name |-> name, min_val |-> min_val, max_val |-> max_val,
     nullable |-> FALSE]

MARKET_DATA_COLUMNS ==
    <<ColumnSpec("date", None, None),
      ColumnSpec("premium_paranagua", Some(-200), Some(500)),
      ColumnSpec("chicago_front", Some(500), Some(2500)),
      ColumnSpec("usd_brl", Some(3), Some(10)),
      ColumnSpec("fob_us_gulf", Some(500), Some(2500)),
      ColumnSpec("lineup_bruto", Some(0), Some(500)),
      ColumnSpec("lineup_liquido", Some(0), Some(500)),
      ColumnSpec("cancelamentos_7d", Some(0), Some(100)),
      ColumnSpec("exports_weekly_tons", Some(0), Some(10000000))>>

\* the column specs validate_row and calculate_missing_rate loop over
CheckColumns == SelectSeq(MARKET_DATA_COLUMNS, LAMBDA spec : spec.name # "date")

MarketDataRow(date, pp, cf, ub, fg, lb, ll, c7, ew) ==
    [date |-> date, premium_paranagua |-> pp, chicago_front |-> cf,
     usd_brl |-> ub, fob_us_gulf |-> fg, lineup_bruto |-> lb,
     lineup_liquido |-> ll, cancelamentos_7d |-> c7,
     exports_weekly_tons |-> ew]

EmptyDatabase ==
    [market_data |-> {}, data_quality_log |-> <<>>, pipeline_runs |-> <<>>]

\* float(x) if x else None: a missing cell and a zero are stored as NULL,
\* a text raises ValueError
FloatOrNull(x) ==
    IF x.kind = "none" \/ (x.kind = "num" /\ x.n = 0) THEN Return(Missing)
    ELSE IF x.kind = "text" THEN Raise("ValueError")
    ELSE Return(x)

\* INSERT ... ON CONFLICT(date) DO UPDATE
insert_market_data(db, row) ==
    LET pp == FloatOrNull(row.premium_paranagua)
        cf == FloatOrNull(row.chicago_front)
        ub == FloatOrNull(row.usd_brl)
        fg == FloatOrNull(row.fob_us_gulf)
        ew == FloatOrNull(row.exports_weekly_tons)
    IN  IF \E c \in {pp, cf, ub, fg, ew} : Raised(c)
        THEN [outcome |-> Raise("ValueError"), database |-> db]
        ELSE [outcome |-> Return(TRUE),
              database |->
                  [db EXCEPT !.market_data =
                      {r \in @ : r.date # row.date}
                      \cup {MarketDataRow(row.date, pp.returned, cf.returned,
                                          ub.returned, fg.returned,
                                          row.lineup_bruto, row.lineup_liquido,
                                          row.cancelamentos_7d,
                                          ew.returned)}]]

QualityIssue(dt, column, issue_type, severity) ==
    [date |-> dt, column_name |-> column, issue_type |-> issue_type,
     severity |-> severity]

log_quality_issue(db, dt, column, issue_type, severity) ==
    [db EXCEPT !.data_quality_log =
        Append(@, QualityIssue(dt, column, issue_type, severity))]

log_pipeline_run(db, run_date, status, records_processed, records_failed, missing_rate, anomalies_detected, error_message) ==
    [db EXCEPT !.pipeline_runs =
        Append(@, [run_date |-> run_date, status |-> status,
                   records_processed |-> records_processed,
                   records_failed |-> records_failed,
                   missing_rate |-> missing_rate,
                   anomalies_detected |-> anomalies_detected,
                   error_message |-> error_message])]

ValidationResult(is_valid, issue_type, message, severity) ==
    [is_valid |-> is_valid, issue_type |-> issue_type, message |-> message,
     severity |-> severity]

\* ValidationResult(is_valid=True)
ValidResult == ValidationResult(TRUE, None, None, "warning")

validate_range(value, spec) ==
    IF value.kind = "none"
    THEN IF ~spec.nullable
         THEN ValidationResult(FALSE, Some("missing"),
                               Some(<<spec.name, "obrigatorio">>), "error")
         ELSE ValidResult
    ELSE IF value.kind = "text"
    THEN ValidationResult(FALSE, Some("validation_error"),
                          Some(<<spec.name, "valor nao numerico">>), "error")
    ELSE IF ~IsNone(spec.min_val) /\ value.n < Val(spec.min_val)
    THEN ValidationResult(FALSE, Some("out_of_range"),
                          Some(<<spec.name, "< min">>), "warning")
    ELSE IF ~IsNone(spec.max_val) /\ value.n > Val(spec.max_val)
    THEN ValidationResult(FALSE, Some("out_of_range"),
                          Some(<<spec.name, "> max">>), "warning")
    ELSE ValidResult

\* anomalous: the columns whose stored history (30 rows or more) puts the
\* value more than ANOMALY_STD_THRESHOLD standard deviations from its mean
detect_anomaly(column, value, anomalous) ==
    IF column \in anomalous
    THEN ValidationResult(FALSE, Some("anomaly"), Some(<<column, "z">>),
                          "warning")
    ELSE ValidResult

\* lineup_liquido > lineup_bruto raises TypeError between a number and a text
validate_lineup_consistency(lineup_bruto, lineup_liquido) ==
    IF lineup_bruto.kind = "none" \/ lineup_liquido.kind = "none"
    THEN Return(ValidResult)
    ELSE IF lineup_bruto.kind # lineup_liquido.kind
    THEN Raise("TypeError")
    ELSE IF lineup_bruto.kind = "num" /\ lineup_liquido.n > lineup_bruto.n
    THEN Return(ValidationResult(FALSE, Some("validation_error"),
                                 Some(<<"lineup", "liquido > bruto">>),
                                 "error"))
    ELSE Return(ValidResult)

\* cancelamentos > 0 and cancelamentos / lineup_bruto raise TypeError on a
\* text
validate_cancellation_rate(cancelamentos, lineup_bruto) ==
    IF cancelamentos.kind = "none" \/ lineup_bruto.kind = "none"
    THEN Return(ValidResult)
    ELSE IF lineup_bruto.kind = "num" /\ lineup_bruto.n = 0
    THEN IF cancelamentos.kind = "text" THEN Raise("TypeError")
         ELSE IF cancelamentos.n > 0
         THEN Return(ValidationResult(FALSE, Some("validation_error"),
                                      Some(<<"cancelamentos_7d",
                                             "lineup_bruto=0">>), "error"))
         ELSE Return(ValidResult)
    ELSE IF cancelamentos.kind = "text" \/ lineup_bruto.kind = "text"
    THEN Raise("TypeError")
    ELSE IF \/ lineup_bruto.n > 0 /\ cancelamentos.n > lineup_bruto.n
            \/ lineup_bruto.n < 0 /\ cancelamentos.n < lineup_bruto.n
    THEN Return(ValidationResult(FALSE, Some("out_of_range"),
                                 Some(<<"cancelamentos_7d", "> 100%">>),
                                 "error"))
    ELSE Return(ValidResult)

\* validate_row: log_quality_issue for each failed check, in order
RECURSIVE LogIssues(_, _, _)
LogIssues(db, row_date, failed) ==
    IF failed = <<>> THEN db
    ELSE LogIssues(log_quality_issue(db, row_date, Head(failed).column,
                                     Val(Head(failed).result.issue_type),
                                     Head(failed).result.severity),
                   row_date, Tail(failed))

AnomalyColumns ==
    <<"premium_paranagua", "chicago_front", "usd_brl", "fob_us_gulf">>

\* validate_row, first loop: the columns whose validate_range result is
\* not valid, in column order
RangeFailures(row_data) ==
    SelectSeq([i \in 1..Len(CheckColumns) |->
                  [column |-> CheckColumns[i].name,
                   result |-> validate_range(row_data[CheckColumns[i].name],
                                             CheckColumns[i])]],
              LAMBDA c : ~c.result.is_valid)

\* validate_row: the issue of a consistency check that returned not valid
ConsistencyFailure(column, outcome) ==
    IF ~Raised(outcome) /\ ~outcome.returned.is_valid
    THEN <<[column |-> column, result |-> outcome.returned]>>
    ELSE <<>>

\* validate_row, last loop: the anomaly columns reached before float(value)
\* raises on a text
AnomalyReached(row_data) ==
    {i \in 1..Len(AnomalyColumns) :
        \A j \in 1..i : row_data[AnomalyColumns[j]].kind # "text"}

\* validate_row, last loop: the anomalies detected in the columns reached
AnomalyFailures(row_data, anomalous) ==
    SelectSeq([i \in 1..Cardinality(AnomalyReached(row_data)) |->
                  [column |-> AnomalyColumns[i],
                   result |->
                       IF row_data[AnomalyColumns[i]].kind = "none"
                       THEN ValidResult
                       ELSE detect_anomaly(AnomalyColumns[i],
                                           row_data[AnomalyColumns[i]],
                                           anomalous)]],
              LAMBDA c : ~c.result.is_valid)

\* validate_row: what it returns or raises, and the database with the
\* quality issues it logged on the way
validate_row(db, row_data, row_date, anomalous) ==
    LET lineup == validate_lineup_consistency(row_data.lineup_bruto,
                                              row_data.lineup_liquido)
        cancel == validate_cancellation_rate(row_data.cancelamentos_7d,
                                             row_data.lineup_bruto)
        failed == RangeFailures(row_data)
                  \o ConsistencyFailure("lineup", lineup)
                  \o ConsistencyFailure("cancelamentos_7d", cancel)
                  \o AnomalyFailures(row_data, anomalous)
        \* set in the first loop only
        has_critical ==
            \E i \in 1..Len(RangeFailures(row_data)) :
                RangeFailures(row_data)[i].result.severity = "critical"
    IN  IF Raised(lineup)
        THEN [outcome |-> lineup,
              database |-> LogIssues(db, row_date, RangeFailures(row_data))]
        ELSE IF Raised(cancel)
        THEN [outcome |-> cancel,
              database |->
                  LogIssues(db, row_date,
                            RangeFailures(row_data)
                            \o ConsistencyFailure("lineup", lineup))]
        ELSE IF Cardinality(AnomalyReached(row_data)) < Len(AnomalyColumns)
        THEN [outcome |-> Raise("ValueError"),
              database |-> LogIssues(db, row_date, failed)]
        ELSE [outcome |->
                  Return(<<~has_critical,
                           [i \in 1..Len(failed) |-> failed[i].result]>>),
              database |-> LogIssues(db, row_date, failed)]

calculate_missing_rate(row) ==
    LET missing_cells ==
            Cardinality({i \in 1..Len(CheckColumns) :
                            row[CheckColumns[i].name].kind = "none"})
        total_cells == Len(CheckColumns)
    IN  (missing_cells * PerMille) \div total_cells

DataSourceError == Raise("DataSourceError")

PipelineResult(status, records_processed, records_failed, missing_rate, anomalies_detected, errors) ==
    [status |-> status, records_processed |-> records_processed,
     records_failed |-> records_failed, missing_rate |-> missing_rate,
     anomalies_detected |-> anomalies_detected, errors |-> errors]

\* a source is what its fetch does: Return(row) or DataSourceError.
\* Calls every source in turn and uses the first row returned.
DataPipeline_try_fetch_all(sources, target_date) ==
    LET good == {i \in 1..Len(sources) : ~Raised(sources[i])}
    IN  IF good = {}
        THEN [data |-> None, fetch_error |-> Some("Todas as fontes falharam"),
              fetched |-> [i \in 1..Len(sources) |-> i]]
        ELSE [data |-> Some(sources[CHOOSE i \in good :
                                        \A j \in good : i <= j].returned),
              fetch_error |-> None,
              fetched |-> [i \in 1..Len(sources) |-> i]]

DataPipeline_try_fetch(sources, target_date) ==
    LET good == {i \in 1..Len(sources) : ~Raised(sources[i])}
        first == CHOOSE i \in good : \A j \in good : i <= j
    IN  IF good = {}
        THEN [data |-> None, fetch_error |-> Some("Todas as fontes falharam"),
              fetched |-> [i \in 1..Len(sources) |-> i]]
        ELSE [data |-> Some(sources[first].returned), fetch_error |-> None,
              fetched |-> [i \in 1..first |-> i]]

\* DataPipeline.run: what it returns or raises, the database it leaves, the
\* sources it called and the data it worked on
DataPipeline_run(sources, target_date, db, anomalous) ==
    LET got == DataPipeline_try_fetch(sources, target_date)
    IN  IF ~IsNone(got.fetch_error)
        THEN [outcome |->
                  Return(PipelineResult("failed", 0, 1, PerMille, 0,
                                        <<Val(got.fetch_error)>>)),
              database |->
                  log_pipeline_run(db, target_date, "failed", 0, 1, PerMille,
                                   0, got.fetch_error),
              fetched |-> got.fetched, data |-> got.data]
        ELSE
        LET data == Val(got.data)
            validated == validate_row(db, data, target_date, anomalous)
        IN  IF Raised(validated.outcome)
            THEN [outcome |-> validated.outcome,
                  database |-> validated.database,
                  fetched |-> got.fetched, data |-> got.data]
            ELSE
            LET is_valid == validated.outcome.returned[1]
                issues == validated.outcome.returned[2]
                anomalies ==
                    Cardinality({i \in 1..Len(issues) :
                                    issues[i].issue_type = Some("anomaly")})
                withMessage == SelectSeq(issues,
                                         LAMBDA i : ~IsNone(i.message))
                errors == [i \in 1..Len(withMessage) |->
                              <<withMessage[i].severity,
                                Val(withMessage[i].message)>>]
                missing_rate == calculate_missing_rate(data)
                inserted ==
                    insert_market_data(
                        validated.database,
                        MarketDataRow(target_date, data.premium_paranagua,
                                      data.chicago_front, data.usd_brl,
                                      data.fob_us_gulf, data.lineup_bruto,
                                      data.lineup_liquido,
                                      data.cancelamentos_7d,
                                      data.exports_weekly_tons))
                status ==
                    IF is_valid
                    THEN IF Len(withMessage) = 0 THEN "success"
                         ELSE "partial"
                    ELSE "failed"
                records_failed == IF is_valid THEN 0 ELSE 1
                db1 == IF is_valid THEN inserted.database
                       ELSE validated.database
            IN  IF is_valid /\ Raised(inserted.outcome)
                THEN [outcome |-> inserted.outcome,
                      database |-> validated.database,
                      fetched |-> got.fetched, data |-> got.data]
                ELSE [outcome |->
                          Return(PipelineResult(status, 1, records_failed,
                                                missing_rate, anomalies,
                                                errors)),
                      database |->
                          log_pipeline_run(db1, target_date, status, 1,
                                           records_failed, missing_rate,
                                           anomalies,
                                           IF Len(withMessage) > 0
                                           THEN Some(errors) ELSE None),
                      fetched |-> got.fetched, data |-> got.data]

----------------------------------------------------------------------------
\* scoring.py: the enumerations and the result records

PhysicalRecommendation ==
    {"reduzir_forte", "reduzir", "manter", "aumentar", "aumentar_forte"}

HedgeRecommendation ==
    {"reduzir_forte", "reduzir", "manter", "aumentar", "aumentar_forte"}

Intensity == {"forte", "moderada", "neutra"}

PhysicalClassification ==
    {"muito_fraco", "fraco", "neutro", "forte", "muito_forte"}

PhysicalResult(rec, int, sizing) ==
    [recommendation |-> rec, intensity |-> int, sizing_pct |-> sizing]

HedgeResult(rec, int, delta) ==
    [recommendation |-> rec, intensity |-> int, delta_pp |-> delta]

\* _clamp(value, min_val, max_val)
Clamp(value, min_val, max_val) == Max(min_val, Min(max_val, value))

\* mutant: the linear map without its final clamp
LinearMap_unclamped(value, in_min, in_max, out_min, out_max) ==
    IF in_max = in_min
    THEN Quot((out_min + out_max) * CU, 2)
    ELSE out_min * CU
         + Quot((value - in_min) * (out_max - out_min) * CU, in_max - in_min)

\* _linear_map: value, in_min, in_max in hundredths; out_min, out_max in
\* points; the result in component units
LinearMap(value, in_min, in_max, out_min, out_max) ==
    IF in_max = in_min
    THEN Quot((out_min + out_max) * CU, 2)
    ELSE LET res == out_min * CU
                    + Quot((value - in_min) * (out_max - out_min) * CU,
                           in_max - in_min)
         IN  Clamp(res, Min(out_min, out_max) * CU, Max(out_min, out_max) * CU)

score_lineup(var_semanal) ==
    IF IsNone(var_semanal) THEN 50 * CU
    ELSE LinearMap(Val(var_semanal), LINEUP_TREND_FORTE_QUEDA * H,
                   LINEUP_TREND_FORTE_ALTA * H, 0, 100)

\* _clamp(percentile): the percentile, in hundredths, as a component score
score_premium(percentile) == Clamp((CU \div H) * percentile, 0, 100 * CU)

score_competitiveness(spread_adjusted) ==
    LinearMap(spread_adjusted, COMPETITIVENESS_MUITO_CARO * H,
              COMPETITIVENESS_MUITO_BARATO * H, 0, 100)

\* mutant: a missing z-score scored as the weakest demand
score_demand_missing_zero(z_pace) ==
    IF IsNone(z_pace) THEN 0
    ELSE LinearMap(Val(z_pace), -DEMAND_Z_FORTE, DEMAND_Z_FORTE, 0, 100)

score_demand(z_pace) ==
    IF IsNone(z_pace) THEN 50 * CU
    ELSE LinearMap(Val(z_pace), -DEMAND_Z_FORTE, DEMAND_Z_FORTE, 0, 100)

\* mutant: a missing FX change scored as the weakest FX signal
score_cambio_missing_zero(var_5d) ==
    IF IsNone(var_5d) THEN 0
    ELSE LinearMap(Val(var_5d), CAMBIO_FORTE_THRESHOLD,
                   -CAMBIO_FORTE_THRESHOLD, 0, 100)

score_cambio(var_5d) ==
    IF IsNone(var_5d) THEN 50 * CU
    ELSE LinearMap(Val(var_5d), CAMBIO_FORTE_THRESHOLD,
                   -CAMBIO_FORTE_THRESHOLD, 0, 100)

compute_component_scores(var_semanal_lineup, percentil_premium, spread_adjusted, z_pace, var_cambio_5d) ==
    [lineup |-> score_lineup(var_semanal_lineup),
     premium |-> score_premium(percentil_premium),
     competitiveness |-> score_competitiveness(spread_adjusted),
     demand |-> score_demand(z_pace),
     cambio |-> score_cambio(var_cambio_5d)]

\* mutant: the FX weight taken as 0.15, the weights then summing to 1.05
compute_score_fisico_overweight(components) ==
    Clamp(SCORING_WEIGHT_LINEUP * components.lineup
          + SCORING_WEIGHT_PREMIUM * components.premium
          + SCORING_WEIGHT_COMPETITIVENESS * components.competitiveness
          + SCORING_WEIGHT_DEMAND * components.demand
          + SCORING_WEIGHT_DEMAND * components.cambio,
          0, 100 * SU)

\* the weighted sum in aggregate units, clamped to [0, 100]
compute_score_fisico(components) ==
    Clamp(SCORING_WEIGHT_LINEUP * components.lineup
          + SCORING_WEIGHT_PREMIUM * components.premium
          + SCORING_WEIGHT_COMPETITIVENESS * components.competitiveness
          + SCORING_WEIGHT_DEMAND * components.demand
          + SCORING_WEIGHT_CAMBIO * components.cambio,
          0, 100 * SU)

\* mutant: the top band cut at > 80 instead of >= 80
classify_score_fisico_strict(score) ==
    IF score > SCORING_FISICO_MUITO_FORTE * SU THEN "muito_forte"
    ELSE IF score >= SCORING_FISICO_FORTE * SU THEN "forte"
    ELSE IF score <= SCORING_FISICO_MUITO_FRACO * SU THEN "muito_fraco"
    ELSE IF score <= SCORING_FISICO_FRACO * SU THEN "fraco"
    ELSE "neutro"

classify_score_fisico(score) ==
    IF score >= SCORING_FISICO_MUITO_FORTE * SU THEN "muito_forte"
    ELSE IF score >= SCORING_FISICO_FORTE * SU THEN "forte"
    ELSE IF score <= SCORING_FISICO_MUITO_FRACO * SU THEN "muito_fraco"
    ELSE IF score <= SCORING_FISICO_FRACO * SU THEN "fraco"
    ELSE "neutro"

\* mutant: the moderate cut points taken inclusive, like the band cut points
determine_intensity_inclusive(score) ==
    IF score > 80 * SU \/ score < 20 * SU THEN "forte"
    ELSE IF score >= 65 * SU \/ score <= 35 * SU THEN "moderada"
    ELSE "neutra"

determine_intensity(score) ==
    IF score > 80 * SU \/ score < 20 * SU THEN "forte"
    ELSE IF score > 65 * SU \/ score < 35 * SU THEN "moderada"
    ELSE "neutra"

compute_physical_recommendation(score) ==
    LET intensity == determine_intensity(score)
    IN  IF score >= SCORING_FISICO_MUITO_FORTE * SU
        THEN PhysicalResult("aumentar_forte", "forte", 25 * H)
        ELSE IF score >= SCORING_FISICO_FORTE * SU
        THEN PhysicalResult("aumentar", intensity, 15 * H)
        ELSE IF score <= SCORING_FISICO_MUITO_FRACO * SU
        THEN PhysicalResult("reduzir_forte", "forte", -25 * H)
        ELSE IF score <= SCORING_FISICO_FRACO * SU
        THEN PhysicalResult("reduzir", intensity, -15 * H)
        ELSE PhysicalResult("manter", "neutra", 0)

\* mutant: the band table consulted before the spike exception, which is
\* then left to the percentiles in [50, 65)
compute_hedge_recommendation_bands_first(chicago_percentile, is_speculative_spike) ==
    IF chicago_percentile >= HEDGE_PERCENTIL_MUITO_ALTO * H
    THEN HedgeResult("aumentar_forte", "forte", 20 * H)
    ELSE IF chicago_percentile >= HEDGE_PERCENTIL_ALTO * H
    THEN HedgeResult("aumentar", "moderada", 10 * H)
    ELSE IF is_speculative_spike /\ chicago_percentile >= 50 * H
    THEN HedgeResult("aumentar", "moderada", 10 * H)
    ELSE IF chicago_percentile <= HEDGE_PERCENTIL_MUITO_BAIXO * H
    THEN HedgeResult("reduzir_forte", "forte", -20 * H)
    ELSE IF chicago_percentile <= HEDGE_PERCENTIL_BAIXO * H
    THEN HedgeResult("reduzir", "moderada", -10 * H)
    ELSE HedgeResult("manter", "neutra", 0)

compute_hedge_recommendation(chicago_percentile, is_speculative_spike) ==
    IF is_speculative_spike /\ chicago_percentile >= 50 * H
    THEN HedgeResult("aumentar", "moderada", 10 * H)
    ELSE IF chicago_percentile >= HEDGE_PERCENTIL_MUITO_ALTO * H
    THEN HedgeResult("aumentar_forte", "forte", 20 * H)
    ELSE IF chicago_percentile >= HEDGE_PERCENTIL_ALTO * H
    THEN HedgeResult("aumentar", "moderada", 10 * H)
    ELSE IF chicago_percentile <= HEDGE_PERCENTIL_MUITO_BAIXO * H
    THEN HedgeResult("reduzir_forte", "forte", -20 * H)
    ELSE IF chicago_percentile <= HEDGE_PERCENTIL_BAIXO * H
    THEN HedgeResult("reduzir", "moderada", -10 * H)
    ELSE HedgeResult("manter", "neutra", 0)

compute_scoring(dt, var_semanal_lineup, percentil_premium, spread_adjusted, z_pace, var_cambio_5d, chicago_percentile, chicago_is_spike) ==
    LET components == compute_component_scores(
            var_semanal_lineup, percentil_premium, spread_adjusted,
            z_pace, var_cambio_5d)
        score_fisico == compute_score_fisico(components)
    IN  [date |-> dt,
         score_fisico |-> score_fisico,
         classification |-> classify_score_fisico(score_fisico),
         components |-> components,
         physical |-> compute_physical_recommendation(score_fisico),
         hedge |-> compute_hedge_recommendation(chicago_percentile,
                                                chicago_is_spike),
         chicago_percentile |-> chicago_percentile,
         chicago_is_spike |-> chicago_is_spike]

----------------------------------------------------------------------------
\* overrides.py

OverrideType ==
    {"logistica", "queda_conjunta", "armadilha_premio",
     "competitividade_critica", "chicago_especulativo"}

\* mutant: the speculative rule ranked before every other rule
OVERRIDE_PRIORITY_speculative_first ==
    [logistica |-> 1, queda_conjunta |-> 2, armadilha_premio |-> 3,
     competitividade_critica |-> 4, chicago_especulativo |-> 0]

OVERRIDE_PRIORITY ==
    [logistica |-> 1, queda_conjunta |-> 2, armadilha_premio |-> 3,
     competitividade_critica |-> 4, chicago_especulativo |-> 5]

\* the frozen dataclass Override; reason is the message with its formatted
\* numbers kept apart
Override(type, reason, physical_action, hedge_action) ==
    [type |-> type, reason |-> reason, physical_action |-> physical_action,
     hedge_action |-> hedge_action, priority |-> OVERRIDE_PRIORITY[type]]

\* mutant: the line-up threshold taken inclusive (<= -10)
check_queda_conjunta_inclusive(var_semanal_lineup, percentil_premium) ==
    IF IsNone(var_semanal_lineup) THEN None
    ELSE IF Val(var_semanal_lineup) <= LINEUP_DROP_OVERRIDE_THRESHOLD * H
            /\ percentil_premium < PREMIUM_THRESHOLD_BAIXO * H
    THEN Some(Override(
             "queda_conjunta",
             <<"Line-up caindo", RoundTo(Val(var_semanal_lineup), 10),
               "premio baixo percentil", RoundTo(percentil_premium, H)>>,
             Some(PhysicalResult("reduzir", "forte", -20 * H)),
             None))
    ELSE None

check_queda_conjunta(var_semanal_lineup, percentil_premium) ==
    IF IsNone(var_semanal_lineup) THEN None
    ELSE LET lineup_caindo ==
                 Val(var_semanal_lineup) < LINEUP_DROP_OVERRIDE_THRESHOLD * H
             premio_baixo == percentil_premium < PREMIUM_THRESHOLD_BAIXO * H
         IN  IF lineup_caindo /\ premio_baixo
             THEN Some(Override(
                      "queda_conjunta",
                      <<"Line-up caindo", RoundTo(Val(var_semanal_lineup), 10),
                        "premio baixo percentil", RoundTo(percentil_premium, H)>>,
                      Some(PhysicalResult("reduzir", "forte", -20 * H)),
                      None))
             ELSE None

\* mutant: the premium trap fires below the high threshold instead of above
check_armadilha_premio_below_alto(var_semanal_lineup, percentil_premium) ==
    IF IsNone(var_semanal_lineup) THEN None
    ELSE IF Val(var_semanal_lineup) < LINEUP_DROP_OVERRIDE_THRESHOLD * H
            /\ percentil_premium < PREMIUM_THRESHOLD_ALTO * H
    THEN Some(Override(
             "armadilha_premio",
             <<"Premio alto percentil", RoundTo(percentil_premium, H),
               "line-up caindo", RoundTo(Val(var_semanal_lineup), 10)>>,
             Some(PhysicalResult("reduzir_forte", "forte", -25 * H)),
             None))
    ELSE None

check_armadilha_premio(var_semanal_lineup, percentil_premium) ==
    IF IsNone(var_semanal_lineup) THEN None
    ELSE LET lineup_caindo ==
                 Val(var_semanal_lineup) < LINEUP_DROP_OVERRIDE_THRESHOLD * H
             premio_alto == percentil_premium > PREMIUM_THRESHOLD_ALTO * H
         IN  IF lineup_caindo /\ premio_alto
             THEN Some(Override(
                      "armadilha_premio",
                      <<"Premio alto percentil", RoundTo(percentil_premium, H),
                        "line-up caindo", RoundTo(Val(var_semanal_lineup), 10)>>,
                      Some(PhysicalResult("reduzir_forte", "forte", -25 * H)),
                      None))
             ELSE None

\* logistics_reason or "Restricao logistica ativa": None and "" give the default
check_logistica(logistics_flag_active, logistics_reason) ==
    IF logistics_flag_active
    THEN Some(Override(
             "logistica",
             IF IsNone(logistics_reason) \/ logistics_reason = Some("")
             THEN <<"Restricao logistica ativa">>
             ELSE <<Val(logistics_reason)>>,
             Some(PhysicalResult("reduzir_forte", "forte", -30 * H)),
             None))
    ELSE None

\* mutant: the speculative rule holds the physical side and leaves the hedge
check_chicago_especulativo_no_hedge(is_speculative_spike, narrativa_confirmada) ==
    IF is_speculative_spike /\ ~narrativa_confirmada
    THEN Some(Override(
             "chicago_especulativo",
             <<"Spike especulativo em Chicago (>5% em 5d) sem narrativa confirmada">>,
             Some(PhysicalResult("manter", "moderada", 0)),
             None))
    ELSE None

check_chicago_especulativo(is_speculative_spike, narrativa_confirmada) ==
    IF is_speculative_spike /\ ~narrativa_confirmada
    THEN Some(Override(
             "chicago_especulativo",
             <<"Spike especulativo em Chicago (>5% em 5d) sem narrativa confirmada">>,
             Some(PhysicalResult("manter", "moderada", 0)),
             Some(HedgeResult("aumentar_forte", "forte", 20 * H))))
    ELSE None

check_competitividade_critica(spread_adjusted) ==
    IF spread_adjusted > CRITICAL_SPREAD_THRESHOLD * H
    THEN Some(Override(
             "competitividade_critica",
             <<"Brasil nao-competitivo spread", RoundTo(spread_adjusted, 10)>>,
             Some(PhysicalResult("reduzir", "moderada", -15 * H)),
             None))
    ELSE None

\* list.sort(key=...): a stable ascending sort; keys[i] is the key of seq[i]
SortByKey(seq, keys) ==
    LET n == Len(seq)
        rank(i) == 1 + Cardinality({j \in 1..n :
                        keys[j] < keys[i] \/ (keys[j] = keys[i] /\ j < i)})
    IN  [r \in 1..n |-> seq[CHOOSE i \in 1..n : rank(i) = r]]

\* mutant: the active list sorted by descending priority number
SortByPriority_descending(active) ==
    SortByKey(active, [i \in 1..Len(active) |-> -active[i].priority])

\* active.sort(key=lambda o: o.priority)
SortByPriority(active) ==
    SortByKey(active, [i \in 1..Len(active) |-> active[i].priority])

\* mutant: the last element of the sorted list taken as dominant
Dominant_last(active) ==
    IF active # <<>> THEN Some(active[Len(active)]) ELSE None

\* dominant = active[0] if active else None
Dominant(active) == IF active # <<>> THEN Some(active[1]) ELSE None

\* mutant: a baseline that already reduces more than the dominant override
\* prescribes is kept
FinalPhysical_keeps_stronger_baseline(dominant, original_physical) ==
    IF /\ ~IsNone(dominant) /\ ~IsNone(Val(dominant).physical_action)
       /\ original_physical.sizing_pct
              >= Val(Val(dominant).physical_action).sizing_pct
    THEN Val(Val(dominant).physical_action)
    ELSE original_physical

\* lines 215-222: only the dominant override's replacements are applied
FinalPhysical(dominant, original_physical) ==
    IF ~IsNone(dominant) /\ ~IsNone(Val(dominant).physical_action)
    THEN Val(Val(dominant).physical_action)
    ELSE original_physical

FinalHedge(dominant, original_hedge) ==
    IF ~IsNone(dominant) /\ ~IsNone(Val(dominant).hedge_action)
    THEN Val(Val(dominant).hedge_action)
    ELSE original_hedge

\* mutant: every active override's hedge replacement is applied, not only
\* the dominant one's
evaluate_overrides_apply_all(var_semanal_lineup, percentil_premium, spread_adjusted, logistics_flag_active, logistics_reason, is_speculative_spike, narrativa_confirmada, original_physical, original_hedge) ==
    LET appended ==
            check_logistica(logistics_flag_active, logistics_reason)
            \o check_queda_conjunta(var_semanal_lineup, percentil_premium)
            \o check_armadilha_premio(var_semanal_lineup, percentil_premium)
            \o check_competitividade_critica(spread_adjusted)
            \o check_chicago_especulativo(is_speculative_spike,
                                          narrativa_confirmada)
        active == SortByPriority(appended)
        dominant == Dominant(active)
        with_hedge == {i \in 1..Len(active) : ~IsNone(active[i].hedge_action)}
    IN  [active_overrides |-> active,
         dominant_override |-> dominant,
         original_physical |-> original_physical,
         original_hedge |-> original_hedge,
         final_physical |-> FinalPhysical(dominant, original_physical),
         final_hedge |->
             IF with_hedge # {}
             THEN Val(active[CHOOSE i \in with_hedge : TRUE].hedge_action)
             ELSE original_hedge]

evaluate_overrides(var_semanal_lineup, percentil_premium, spread_adjusted, logistics_flag_active, logistics_reason, is_speculative_spike, narrativa_confirmada, original_physical, original_hedge) ==
    LET appended ==
            check_logistica(logistics_flag_active, logistics_reason)
            \o check_queda_conjunta(var_semanal_lineup, percentil_premium)
            \o check_armadilha_premio(var_semanal_lineup, percentil_premium)
            \o check_competitividade_critica(spread_adjusted)
            \o check_chicago_especulativo(is_speculative_spike,
                                          narrativa_confirmada)
        active == SortByPriority(appended)
        dominant == Dominant(active)
    IN  [active_overrides |-> active,
         dominant_override |-> dominant,
         original_physical |-> original_physical,
         original_hedge |-> original_hedge,
         final_physical |-> FinalPhysical(dominant, original_physical),
         final_hedge |-> FinalHedge(dominant, original_hedge)]

\* OverrideEvaluation.has_override
has_override(evaluation) == ~IsNone(evaluation.dominant_override)

get_override_justification(evaluation) ==
    IF ~has_override(evaluation)
    THEN <<"Nenhum override ativo. Recomendacao baseada no score.">>
    ELSE LET dom == Val(evaluation.dominant_override)
             act == evaluation.active_overrides
         IN  <<<<"OVERRIDE ATIVO", dom.type>>, <<"Motivo", dom.reason>>>>
             \o (IF Len(act) > 1
                 THEN <<<<"Outros overrides ativos (menor prioridade)",
                          [i \in 1..(Len(act) - 1) |-> act[i + 1].type]>>>>
                 ELSE <<>>)
             \o (IF ~IsNone(dom.physical_action)
                 THEN <<<<"Acao fisica",
                          evaluation.final_physical.recommendation,
                          evaluation.original_physical.recommendation>>>>
                 ELSE <<>>)
             \o (IF ~IsNone(dom.hedge_action)
                 THEN <<<<"Acao hedge",
                          evaluation.final_hedge.recommendation,
                          evaluation.original_hedge.recommendation>>>>
                 ELSE <<>>)

----------------------------------------------------------------------------
\* book.py

BookState(exposicao, limite_long, limite_short, hedge_atual, hedge_meta) ==
    [exposicao_fisica_pct |-> exposicao, limite_long_pct |-> limite_long,
     limite_short_pct |-> limite_short, hedge_atual_pct |-> hedge_atual,
     hedge_meta_pct |-> hedge_meta]

exposicao_disponivel_long(b) ==
    Max(0, b.limite_long_pct - b.exposicao_fisica_pct)

exposicao_disponivel_short(b) ==
    Max(0, b.exposicao_fisica_pct - b.limite_short_pct)

is_at_long_limit(b) == b.exposicao_fisica_pct >= b.limite_long_pct

\* mutant: the short limit itself not counted as reached
is_at_short_limit_strict(b) == b.exposicao_fisica_pct < b.limite_short_pct

is_at_short_limit(b) == b.exposicao_fisica_pct <= b.limite_short_pct

is_overhedged(b) ==
    b.hedge_atual_pct >= b.hedge_meta_pct + BOOK_HEDGE_TOLERANCE_PP * H

\* mutant: a fired guard zeroes the magnitude and the intensity but keeps the
\* recommended action
modulate_by_book_keeps_action(physical, hedge, b) ==
    LET long_guard == physical.recommendation \in {"aumentar", "aumentar_forte"}
                      /\ is_at_long_limit(b)
        short_guard == physical.recommendation \in {"reduzir", "reduzir_forte"}
                       /\ is_at_short_limit(b)
        hedge_guard == hedge.recommendation \in {"aumentar", "aumentar_forte"}
                       /\ is_overhedged(b)
        reasons ==
            (IF long_guard
             THEN <<<<"Exposicao no limite long", b.limite_long_pct>>>>
             ELSE <<>>)
            \o (IF short_guard
                THEN <<<<"Exposicao no limite short", b.limite_short_pct>>>>
                ELSE <<>>)
            \o (IF hedge_guard
                THEN <<<<"Hedge acima da meta + tolerancia",
                         b.hedge_atual_pct, b.hedge_meta_pct>>>>
                ELSE <<>>)
    IN  [physical |-> IF long_guard \/ short_guard
                      THEN PhysicalResult(physical.recommendation, "neutra", 0)
                      ELSE physical,
         hedge |-> IF hedge_guard
                   THEN HedgeResult(hedge.recommendation, "neutra", 0)
                   ELSE hedge,
         physical_was_modulated |-> long_guard \/ short_guard,
         hedge_was_modulated |-> hedge_guard,
         modulation_reason |-> IF reasons # <<>> THEN Some(reasons) ELSE None]

\* mutant: the hedge guard fires without recording its reason
modulate_by_book_silent_hedge(physical, hedge, b) ==
    LET long_guard == physical.recommendation \in {"aumentar", "aumentar_forte"}
                      /\ is_at_long_limit(b)
        short_guard == physical.recommendation \in {"reduzir", "reduzir_forte"}
                       /\ is_at_short_limit(b)
        hedge_guard == hedge.recommendation \in {"aumentar", "aumentar_forte"}
                       /\ is_overhedged(b)
        reasons ==
            (IF long_guard
             THEN <<<<"Exposicao no limite long", b.limite_long_pct>>>>
             ELSE <<>>)
            \o (IF short_guard
                THEN <<<<"Exposicao no limite short", b.limite_short_pct>>>>
                ELSE <<>>)
    IN  [physical |-> IF long_guard \/ short_guard
                      THEN PhysicalResult("manter", "neutra", 0)
                      ELSE physical,
         hedge |-> IF hedge_guard
                   THEN HedgeResult("manter", "neutra", 0)
                   ELSE hedge,
         physical_was_modulated |-> long_guard \/ short_guard,
         hedge_was_modulated |-> hedge_guard,
         modulation_reason |-> IF reasons # <<>> THEN Some(reasons) ELSE None]

modulate_by_book(physical, hedge, b) ==
    LET long_guard == physical.recommendation \in {"aumentar", "aumentar_forte"}
                      /\ is_at_long_limit(b)
        short_guard == physical.recommendation \in {"reduzir", "reduzir_forte"}
                       /\ is_at_short_limit(b)
        hedge_guard == hedge.recommendation \in {"aumentar", "aumentar_forte"}
                       /\ is_overhedged(b)
        reasons ==
            (IF long_guard
             THEN <<<<"Exposicao no limite long", b.limite_long_pct>>>>
             ELSE <<>>)
            \o (IF short_guard
                THEN <<<<"Exposicao no limite short", b.limite_short_pct>>>>
                ELSE <<>>)
            \o (IF hedge_guard
                THEN <<<<"Hedge acima da meta + tolerancia",
                         b.hedge_atual_pct, b.hedge_meta_pct>>>>
                ELSE <<>>)
    IN  [physical |-> IF long_guard \/ short_guard
                      THEN PhysicalResult("manter", "neutra", 0)
                      ELSE physical,
         hedge |-> IF hedge_guard
                   THEN HedgeResult("manter", "neutra", 0)
                   ELSE hedge,
         physical_was_modulated |-> long_guard \/ short_guard,
         hedge_was_modulated |-> hedge_guard,
         modulation_reason |-> IF reasons # <<>> THEN Some(reasons) ELSE None]

calculate_effective_sizing(sizing_pct, b) ==
    IF sizing_pct > 0 THEN Min(sizing_pct, exposicao_disponivel_long(b))
    ELSE IF sizing_pct < 0 THEN Max(sizing_pct, -exposicao_disponivel_short(b))
    ELSE 0

----------------------------------------------------------------------------
\* engine.py

MarketInputs(dt, var_semanal_lineup, percentil_premium, spread_adjusted, z_pace, var_cambio_5d, chicago_percentile, chicago_is_spike, logistics_flag_active, logistics_reason, narrativa_confirmada) ==
    [dt |-> dt, var_semanal_lineup |-> var_semanal_lineup,
     percentil_premium |-> percentil_premium,
     spread_adjusted |-> spread_adjusted, z_pace |-> z_pace,
     var_cambio_5d |-> var_cambio_5d,
     chicago_percentile |-> chicago_percentile,
     chicago_is_spike |-> chicago_is_spike,
     logistics_flag_active |-> logistics_flag_active,
     logistics_reason |-> logistics_reason,
     narrativa_confirmada |-> narrativa_confirmada]

\* mutant: a default book whose short limit is -25
DefaultBook_short25 ==
    BookState(0, DEFAULT_LIMITE_LONG_PCT * H, -25 * H,
              0, DEFAULT_HEDGE_META_PCT * H)

\* the book run_decision_engine builds when none is given
DefaultBook ==
    BookState(0, DEFAULT_LIMITE_LONG_PCT * H, DEFAULT_LIMITE_SHORT_PCT * H,
              0, DEFAULT_HEDGE_META_PCT * H)

\* "forte" if score > 65 else "fraco" if score < 35 else "neutro"
DriverDirection(score) ==
    IF score > 65 * CU THEN "forte"
    ELSE IF score < 35 * CU THEN "fraco"
    ELSE "neutro"

\* sorted(..., key=lambda x: abs(x[1] - 50), reverse=True)[:2]: reverse=True
\* keeps the order of equal keys, so it is the stable sort on the negated key
TopComponents(comp) ==
    LET all == <<<<"lineup", comp.lineup>>, <<"premio", comp.premium>>,
                 <<"competitividade", comp.competitiveness>>>>
        sorted == SortByKey(all, [i \in 1..3 |-> -Abs(all[i][2] - 50 * CU)])
    IN  SubSeq(sorted, 1, 2)

build_justificativa(scoring, override_eval, modulated) ==
    LET top == TopComponents(scoring.components)
    IN  <<<<"Fisico", scoring.classification,
            RoundTo(scoring.score_fisico, SU)>>,
          <<"Drivers",
            [i \in 1..2 |-> <<top[i][1], DriverDirection(top[i][2])>>]>>>>
        \o (IF has_override(override_eval)
            THEN <<get_override_justification(override_eval)>>
            ELSE <<>>)
        \o (IF ~IsNone(modulated.modulation_reason)
            THEN <<<<"Modulacao", Val(modulated.modulation_reason)>>>>
            ELSE <<>>)
        \o <<<<"Recomendacao", modulated.physical.recommendation,
               modulated.hedge.recommendation>>>>

\* x or 0.0
OrZero(x) == IF IsNone(x) THEN 0 ELSE Val(x)

\* lines 216-238: the three stages a run goes through before the report
Stages(in, b) ==
    LET scoring == compute_scoring(
            in.dt, in.var_semanal_lineup, in.percentil_premium,
            in.spread_adjusted, in.z_pace, in.var_cambio_5d,
            in.chicago_percentile, in.chicago_is_spike)
        override_eval == evaluate_overrides(
            in.var_semanal_lineup, in.percentil_premium, in.spread_adjusted,
            in.logistics_flag_active, in.logistics_reason,
            in.chicago_is_spike, in.narrativa_confirmada,
            scoring.physical, scoring.hedge)
    IN  [scoring |-> scoring,
         override_eval |-> override_eval,
         modulated |-> modulate_by_book(override_eval.final_physical,
                                        override_eval.final_hedge, b)]

\* lines 253-299: the DecisionReport built from the stages
Report(in, b, st) ==
    LET scoring == st.scoring
        override_eval == st.override_eval
        modulated == st.modulated
        effective_sizing ==
            calculate_effective_sizing(modulated.physical.sizing_pct, b)
    IN  [data_referencia |-> in.dt,
         score_fisico |-> scoring.score_fisico,
         classificacao |-> scoring.classification,
         recomendacao_fisica |->
             [acao |-> modulated.physical.recommendation,
              intensidade |-> modulated.physical.intensity,
              sizing_pct |-> RoundTo(effective_sizing, 10)],
         recomendacao_hedge |->
             [acao |-> modulated.hedge.recommendation,
              intensidade |-> modulated.hedge.intensity,
              delta_pp |-> RoundTo(modulated.hedge.delta_pp, 10)],
         componentes |->
             [lineup |-> [score |-> RoundTo(scoring.components.lineup, CU \div 10),
                          var_semanal |-> OrZero(in.var_semanal_lineup)],
              premio |-> [score |-> RoundTo(scoring.components.premium, CU \div 10),
                          percentil |-> in.percentil_premium],
              competitividade |->
                  [score |-> RoundTo(scoring.components.competitiveness, CU \div 10),
                   spread |-> in.spread_adjusted],
              demanda |-> [score |-> RoundTo(scoring.components.demand, CU \div 10),
                           z_pace |-> OrZero(in.z_pace)],
              cambio |-> [score |-> RoundTo(scoring.components.cambio, CU \div 10),
                          var_5d |-> OrZero(in.var_cambio_5d)]],
         overrides_ativos |->
             [i \in 1..Len(override_eval.active_overrides) |->
                 override_eval.active_overrides[i].type],
         override_dominante |->
             IF ~IsNone(override_eval.dominant_override)
             THEN Some(Val(override_eval.dominant_override).type)
             ELSE None,
         modulacao_aplicada |->
             modulated.physical_was_modulated \/ modulated.hedge_was_modulated,
         modulacao_razao |-> modulated.modulation_reason,
         justificativa |-> build_justificativa(scoring, override_eval,
                                               modulated)]

\* run_decision_engine(inputs, book): book is None or Some(BookState)
run_decision_engine(in, b) ==
    LET bk == IF IsNone(b) THEN DefaultBook ELSE Val(b)
    IN  Report(in, bk, Stages(in, bk))

\* DecisionEngine.__init__(book): book or BookState(...); a BookState is
\* always truthy, so only None takes the default
DecisionEngine_init(b) ==
    [book |-> IF IsNone(b)
              THEN BookState(0, DEFAULT_LIMITE_LONG_PCT * H,
                             DEFAULT_LIMITE_SHORT_PCT * H, 0,
                             DEFAULT_HEDGE_META_PCT * H)
              ELSE Val(b),
     last_report |-> None]

\* mutant: update_book also forgets the stored report
DecisionEngine_update_book_resets(self, b) ==
    [self EXCEPT !.book = b, !.last_report = None]

\* DecisionEngine.update_book(book)
DecisionEngine_update_book(self, b) == [self EXCEPT !.book = b]

\* mutant: run answers with the stored last report when there is one
DecisionEngine_run_cached(self, in) ==
    LET report == IF IsNone(self.last_report)
                  THEN run_decision_engine(in, Some(self.book))
                  ELSE Val(self.last_report)
    IN  [report |-> report,
         self |-> [self EXCEPT !.last_report = Some(report)]]

\* DecisionEngine.run(inputs): the report returned and the object after it
DecisionEngine_run(self, in) ==
    LET report == run_decision_engine(in, Some(self.book))
    IN  [report |-> report,
         self |-> [self EXCEPT !.last_report = Some(report)]]

----------------------------------------------------------------------------
\* The calls.  run_decision_engine is a pure function of (inputs, book): the
\* initial states draw its arguments and the one step applies it.

\* the values drawn lie on the 0.02 grid, so that rounding to one decimal
\* never meets a tie (where the binary float decides in the code)
LineupValues == {None, Some(-1500), Some(-1002), Some(-1000), Some(0), Some(1500)}

PremiumValues == {1000, 4000, 7000, 8000, 8002}

SpreadValues == {-2000, 1500, 1502}

ZPaceValues == {None, Some(-150), Some(150)}

CambioValues == {None, Some(300)}

ChicagoValues == {2000, 3500, 4998, 5000, 6500, 8000}

\* (chicago_is_spike, narrativa_confirmada)
SpikeValues == {<<FALSE, FALSE>>, <<TRUE, FALSE>>, <<TRUE, TRUE>>}

\* (logistics_flag_active, logistics_reason)
LogisticsValues == {<<FALSE, None>>, <<TRUE, Some("strike")>>}

InputValues ==
    {MarketInputs("2024-04-20", l, p, s, z, c, ch, sp[1], lg[1], lg[2], sp[2]) :
        l \in LineupValues, p \in PremiumValues, s \in SpreadValues,
        z \in ZPaceValues, c \in CambioValues, ch \in ChicagoValues,
        sp \in SpikeValues, lg \in LogisticsValues}

\* how many 0.02 steps inside each limit the exposures drawn go
NearSteps == 3

\* exposures around both limits of the default 80 / -50 book: beyond, at,
\* 0.02 .. 0.02 * NearSteps inside (headrooms that round to 0.0 and to 0.1),
\* 12.36 inside (a headroom smaller than every sizing), and far from both
ExposureValues ==
    {-6000, -5000, -3764, 0, 6764, 8000, 9000}
    \cup {DEFAULT_LIMITE_LONG_PCT * H - 2 * k : k \in 1..NearSteps}
    \cup {DEFAULT_LIMITE_SHORT_PCT * H + 2 * k : k \in 1..NearSteps}

\* hedge ratios against the target 60: at target + 20, just below, far below
HedgeValues == {0, 7998, 8000}

BookValues ==
    {BookState(e, DEFAULT_LIMITE_LONG_PCT * H, DEFAULT_LIMITE_SHORT_PCT * H,
               0, DEFAULT_HEDGE_META_PCT * H) : e \in ExposureValues}
    \cup {BookState(e, DEFAULT_LIMITE_LONG_PCT * H,
                    DEFAULT_LIMITE_SHORT_PCT * H, h,
                    DEFAULT_HEDGE_META_PCT * H) :
            e \in {-5000, 0, 8000}, h \in HedgeValues}

Init ==
    /\ inputs \in InputValues
    /\ book \in {None} \cup {Some(b) : b \in BookValues}
    /\ arg = None
    /\ pc = "call"
    /\ stages = None
    /\ result = None
    /\ engine = None
    /\ history = {}
    /\ database = EmptyDatabase
    /\ fetched = <<>>

\* engine.py: report = run_decision_engine(inputs, book)
RunDecisionEngine ==
    /\ pc = "call"
    /\ ~IsNone(inputs)
    /\ result' = Some(run_decision_engine(inputs, book))
    /\ stages' = Some(Stages(inputs, IF IsNone(book) THEN DefaultBook
                                     ELSE Val(book)))
    /\ pc' = "done"
    /\ UNCHANGED <<inputs, book, arg, engine, history, database, fetched>>

Next == RunDecisionEngine

Spec == Init /\ [][Next]_vars

----------------------------------------------------------------------------
\* The scoring functions of one aggregate score (compute_scoring, lines
\* 315-316, and determine_intensity), applied to a score drawn directly.

\* scores are drawn every 1/ScoreGrid of a point
ScoreGrid == 2

ScoreValues ==
    {(k * SU) \div ScoreGrid : k \in 0..(100 * ScoreGrid)}
    \cup {t * SU + d : t \in {20, 35, 65, 80}, d \in {-1, 1, -(SU \div H), SU \div H}}

InitScoring ==
    /\ inputs = None
    /\ book = None
    /\ arg \in {Some(sc) : sc \in ScoreValues}
    /\ pc = "call"
    /\ stages = None
    /\ result = None
    /\ engine = None
    /\ history = {}
    /\ database = EmptyDatabase
    /\ fetched = <<>>

ScoreBands ==
    /\ pc = "call"
    /\ ~IsNone(arg)
    /\ result' = Some([classification |-> classify_score_fisico(Val(arg)),
                       intensity |-> determine_intensity(Val(arg)),
                       physical |-> compute_physical_recommendation(Val(arg))])
    /\ pc' = "done"
    /\ UNCHANGED <<inputs, book, arg, stages, engine, history, database, fetched>>

NextScoring == ScoreBands

SpecScoring == InitScoring /\ [][NextScoring]_vars

----------------------------------------------------------------------------
\* compute_scoring applied to inputs whose reference-price percentile runs
\* over the whole range, with and without spike, at three physical scores.

\* percentiles are drawn every 1/HedgeGrid of a point
HedgeGrid == 1

HedgePercentiles ==
    {(k * H) \div HedgeGrid : k \in 0..(100 * HedgeGrid)}
    \cup {t * H + d : t \in {20, 35, 50, 65, 80}, d \in {-2, 2}}

HedgeInputValues ==
    {MarketInputs("2024-04-20", l, 5000, 0, None, None, ch, sp, FALSE, None, FALSE) :
        l \in {None, Some(-1500), Some(1500)}, ch \in HedgePercentiles,
        sp \in BOOLEAN}

InitHedge ==
    /\ inputs \in HedgeInputValues
    /\ book = None
    /\ arg = None
    /\ pc = "call"
    /\ stages = None
    /\ result = None
    /\ engine = None
    /\ history = {}
    /\ database = EmptyDatabase
    /\ fetched = <<>>

\* scoring.py: scoring = compute_scoring(dt=..., ...)
ComputeScoring ==
    /\ pc = "call"
    /\ ~IsNone(inputs)
    /\ result' = Some(compute_scoring(
                      inputs.dt, inputs.var_semanal_lineup,
                      inputs.percentil_premium, inputs.spread_adjusted,
                      inputs.z_pace, inputs.var_cambio_5d,
                      inputs.chicago_percentile, inputs.chicago_is_spike))
    /\ pc' = "done"
    /\ UNCHANGED <<inputs, book, arg, stages, engine, history, database, fetched>>

NextHedge == ComputeScoring

SpecHedge == InitHedge /\ [][NextHedge]_vars

----------------------------------------------------------------------------
\* compute_score_fisico applied to component scores drawn directly.

\* each component score is drawn every 100/ComponentSteps points of [0, 100]
ComponentSteps == 4

ComponentValues ==
    {(k * 100 * CU) \div ComponentSteps : k \in 0..ComponentSteps}

\* the dataclass ComponentScores
ComponentScores(lineup, premium, competitiveness, demand, cambio) ==
    [lineup |-> lineup, premium |-> premium,
     competitiveness |-> competitiveness, demand |-> demand,
     cambio |-> cambio]

InitAggregate ==
    /\ inputs = None
    /\ book = None
    /\ arg \in {Some(ComponentScores(l, p, c, d, f)) :
                   l \in ComponentValues, p \in ComponentValues,
                   c \in ComponentValues, d \in ComponentValues,
                   f \in ComponentValues}
    /\ pc = "call"
    /\ stages = None
    /\ result = None
    /\ engine = None
    /\ history = {}
    /\ database = EmptyDatabase
    /\ fetched = <<>>

\* scoring.py: score_fisico = compute_score_fisico(components)
ComputeScoreFisico ==
    /\ pc = "call"
    /\ ~IsNone(arg)
    /\ result' = Some(compute_score_fisico(Val(arg)))
    /\ pc' = "done"
    /\ UNCHANGED <<inputs, book, arg, stages, engine, history, database, fetched>>

NextAggregate == ComputeScoreFisico

SpecAggregate == InitAggregate /\ [][NextAggregate]_vars

----------------------------------------------------------------------------
\* compute_component_scores applied to two sets of raw values, each drawn at
\* one position of the maps' domains: position -MapSteps is the lower
\* boundary of every domain (-15, percentile 0, -20, -1.5, -3), MapSteps the
\* upper one, and the positions run to twice the distance on both sides.

MapSteps == 5

MapPositions == (-2 * MapSteps)..(2 * MapSteps)

\* the five raw values at position k
RawValuesAt(k) ==
    [var_semanal_lineup |-> Some((k * LINEUP_TREND_FORTE_ALTA * H) \div MapSteps),
     percentil_premium |-> 50 * H + (k * 50 * H) \div MapSteps,
     spread_adjusted |-> (k * COMPETITIVENESS_MUITO_CARO * H) \div MapSteps,
     z_pace |-> Some((k * DEMAND_Z_FORTE) \div MapSteps),
     var_cambio_5d |-> Some((k * CAMBIO_FORTE_THRESHOLD) \div MapSteps)]

InitComponents ==
    /\ inputs = None
    /\ book = None
    /\ arg \in {Some(<<RawValuesAt(j), RawValuesAt(k)>>) :
                   j \in MapPositions, k \in MapPositions}
    /\ pc = "call"
    /\ stages = None
    /\ result = None
    /\ engine = None
    /\ history = {}
    /\ database = EmptyDatabase
    /\ fetched = <<>>

\* scoring.py: components = compute_component_scores(...), once for each of
\* the two sets of raw values
ComputeComponentScores ==
    /\ pc = "call"
    /\ ~IsNone(arg)
    /\ result' = Some([i \in 1..2 |->
                      compute_component_scores(
                          Val(arg)[i].var_semanal_lineup,
                          Val(arg)[i].percentil_premium,
                          Val(arg)[i].spread_adjusted,
                          Val(arg)[i].z_pace,
                          Val(arg)[i].var_cambio_5d)])
    /\ pc' = "done"
    /\ UNCHANGED <<inputs, book, arg, stages, engine, history, database, fetched>>

NextComponents == ComputeComponentScores

SpecComponents == InitComponents /\ [][NextComponents]_vars

----------------------------------------------------------------------------
\* modulate_by_book applied to a recommendation pair and a book drawn
\* directly, and then once more to its own output with the same book.

\* the physical recommendations scoring and the override rules produce
PhysicalResultValues ==
    {PhysicalResult("aumentar_forte", "forte", 25 * H),
     PhysicalResult("aumentar", "moderada", 15 * H),
     PhysicalResult("manter", "neutra", 0),
     PhysicalResult("manter", "moderada", 0),
     PhysicalResult("reduzir", "moderada", -15 * H),
     PhysicalResult("reduzir", "forte", -20 * H),
     PhysicalResult("reduzir_forte", "forte", -25 * H),
     PhysicalResult("reduzir_forte", "forte", -30 * H)}

HedgeResultValues ==
    {HedgeResult("aumentar_forte", "forte", 20 * H),
     HedgeResult("aumentar", "moderada", 10 * H),
     HedgeResult("manter", "neutra", 0),
     HedgeResult("reduzir", "moderada", -10 * H),
     HedgeResult("reduzir_forte", "forte", -20 * H)}

\* books beyond, at and inside each limit, over, at and under the hedge
\* tolerance
ModulateBookValues ==
    {BookState(e, DEFAULT_LIMITE_LONG_PCT * H, DEFAULT_LIMITE_SHORT_PCT * H,
               h, DEFAULT_HEDGE_META_PCT * H) :
        e \in {-6000, -5000, 0, 8000, 9000}, h \in {0, 7998, 8000, 9000}}

InitModulate ==
    /\ inputs = None
    /\ book \in {Some(b) : b \in ModulateBookValues}
    /\ arg \in {Some([physical |-> p, hedge |-> h]) :
                   p \in PhysicalResultValues, h \in HedgeResultValues}
    /\ pc = "call"
    /\ stages = None
    /\ result = None
    /\ engine = None
    /\ history = {}
    /\ database = EmptyDatabase
    /\ fetched = <<>>

\* book.py: modulated = modulate_by_book(physical, hedge, book)
ModulateByBook ==
    /\ pc = "call"
    /\ ~IsNone(arg) /\ ~IsNone(book)
    /\ result' = Some(<<modulate_by_book(Val(arg).physical, Val(arg).hedge,
                                         Val(book))>>)
    /\ pc' = "done"
    /\ UNCHANGED <<inputs, book, arg, stages, engine, history, database, fetched>>

\* modulate_by_book(modulated.physical, modulated.hedge, book): the modulator
\* re-applied to what it returned
ModulateAgain ==
    /\ pc = "done"
    /\ ~IsNone(result) /\ ~IsNone(book)
    /\ result' = Some(Append(Val(result),
                             modulate_by_book(Val(result)[1].physical,
                                              Val(result)[1].hedge,
                                              Val(book))))
    /\ pc' = "again"
    /\ UNCHANGED <<inputs, book, arg, stages, engine, history, database, fetched>>

NextModulate == ModulateByBook \/ ModulateAgain

SpecModulate == InitModulate /\ [][NextModulate]_vars

----------------------------------------------------------------------------
\* A DecisionEngine object over its life: constructed with or without a
\* book, its book replaced, run any number of times, next to direct calls of
\* run_decision_engine.  history keeps what every run was given and returned.

\* a strong physical score with a high reference price, and a logistics
\* restriction on a weak score
EngineInputValues ==
    {MarketInputs("2024-04-20", Some(1500), 8000, -2000, Some(150), None,
                  8000, FALSE, FALSE, None, FALSE),
     MarketInputs("2024-04-21", Some(-1500), 1000, 1502, None, None,
                  2000, TRUE, TRUE, Some("strike"), FALSE)}

\* a book equal to the default one, one with 12.36 of long headroom and one
\* at the long limit
EngineBookValues ==
    {BookState(e, DEFAULT_LIMITE_LONG_PCT * H, DEFAULT_LIMITE_SHORT_PCT * H,
               0, DEFAULT_HEDGE_META_PCT * H) : e \in {0, 6764, 8000}}

\* the books a direct call of run_decision_engine is given
FunctionBookValues ==
    {None, Some(BookState(8000, DEFAULT_LIMITE_LONG_PCT * H,
                          DEFAULT_LIMITE_SHORT_PCT * H, 0,
                          DEFAULT_HEDGE_META_PCT * H))}

InitEngine ==
    /\ inputs = None
    /\ book = None
    /\ arg = None
    /\ pc = "idle"
    /\ stages = None
    /\ result = None
    /\ engine = None
    /\ history = {}
    /\ database = EmptyDatabase
    /\ fetched = <<>>

\* engine = DecisionEngine() or DecisionEngine(book)
Construct ==
    /\ IsNone(engine)
    /\ \E b \in {None} \cup {Some(bk) : bk \in EngineBookValues} :
           engine' = Some(DecisionEngine_init(b))
    /\ UNCHANGED <<inputs, book, arg, pc, stages, result, history, database, fetched>>

\* engine.update_book(book)
UpdateBook ==
    /\ ~IsNone(engine)
    /\ \E b \in EngineBookValues :
           engine' = Some(DecisionEngine_update_book(Val(engine), b))
    /\ UNCHANGED <<inputs, book, arg, pc, stages, result, history, database, fetched>>

\* report = engine.run(inputs)
Run ==
    /\ ~IsNone(engine)
    /\ \E in \in EngineInputValues :
           LET out == DecisionEngine_run(Val(engine), in)
           IN  /\ engine' = Some(out.self)
               /\ result' = Some(out.report)
               /\ history' = history \cup
                      {[via |-> "run", inputs |-> in,
                        book |-> Val(engine).book, report |-> out.report]}
    /\ UNCHANGED <<inputs, book, arg, pc, stages, database, fetched>>

\* report = run_decision_engine(inputs, book), called next to the object
CallRunDecisionEngine ==
    /\ \E in \in EngineInputValues, b \in FunctionBookValues :
           LET report == run_decision_engine(in, b)
           IN  /\ result' = Some(report)
               /\ history' = history \cup
                      {[via |-> "function", inputs |-> in,
                        book |-> IF IsNone(b) THEN DefaultBook ELSE Val(b),
                        report |-> report]}
    /\ UNCHANGED <<inputs, book, arg, pc, stages, engine, database, fetched>>

NextEngine == Construct \/ UpdateBook \/ Run \/ CallRunDecisionEngine

SpecEngine == InitEngine /\ [][NextEngine]_vars

----------------------------------------------------------------------------
\* normalize_premium applied to a date, a premium (or None) and a historical
\* sample drawn directly.

\* the longest sample drawn in full; three longer ones lie around the
\* minimum of 30 samples
MaxSample == 3

SampleValues == 1..3

HistoricalValues ==
    UNION {[1..n -> SampleValues] : n \in 0..MaxSample}
    \cup {[i \in 1..n |-> 1 + (i % 3)] :
             n \in (MIN_HISTORICAL_SAMPLES - 1)..(MIN_HISTORICAL_SAMPLES + 1)}

\* premiums below, on and above the sample values
PremiumRawValues == 0..4

InitPremium ==
    /\ inputs = None
    /\ book = None
    /\ arg \in {Some([dt |-> d, premium |-> p, historical |-> hs]) :
                   d \in {<<2024, 4, 20>>, <<2024, 9, 20>>},
                   p \in {None} \cup {Some(v) : v \in PremiumRawValues},
                   hs \in HistoricalValues}
    /\ pc = "call"
    /\ stages = None
    /\ result = None
    /\ engine = None
    /\ history = {}
    /\ database = EmptyDatabase
    /\ fetched = <<>>

\* premium.py: result = normalize_premium(dt, premium, historical_by_regime)
NormalizePremium ==
    /\ pc = "call"
    /\ ~IsNone(arg)
    /\ result' = Some(normalize_premium(Val(arg).dt, Val(arg).premium,
                                        Val(arg).historical))
    /\ pc' = "done"
    /\ UNCHANGED <<inputs, book, arg, stages, engine, history, database, fetched>>

NextPremium == NormalizePremium

SpecPremium == InitPremium /\ [][NextPremium]_vars

----------------------------------------------------------------------------
\* compute_logistics_flag applied to arguments drawn directly.

\* the largest number of consecutive weeks above the wait threshold drawn
MaxWeeksAbove == 3

\* wait times missing, below, on and above 15 days
WaitTimeValues == {None, Some(1000), Some(1500), Some(1502)}

\* loading rates missing, below, on and above 0.70
LoadingRateValues == {None, Some(69), Some(70), Some(100)}

ManualEventValues == {None, Some(""), Some("greve")}

InitLogistics ==
    /\ inputs = None
    /\ book = None
    /\ arg \in {Some([wait_time_days |-> w, wait_time_weeks_above |-> k,
                       loading_rate |-> l, manual_event |-> e]) :
                   w \in WaitTimeValues, k \in 0..MaxWeeksAbove,
                   l \in LoadingRateValues, e \in ManualEventValues}
    /\ pc = "call"
    /\ stages = None
    /\ result = None
    /\ engine = None
    /\ history = {}
    /\ database = EmptyDatabase
    /\ fetched = <<>>

\* auxiliaries.py: flag = compute_logistics_flag(...)
ComputeLogisticsFlag ==
    /\ pc = "call"
    /\ ~IsNone(arg)
    /\ result' = Some(compute_logistics_flag(
                      Val(arg).wait_time_days, Val(arg).wait_time_weeks_above,
                      Val(arg).loading_rate, Val(arg).manual_event))
    /\ pc' = "done"
    /\ UNCHANGED <<inputs, book, arg, stages, engine, history, database, fetched>>

NextLogistics == ComputeLogisticsFlag

SpecLogistics == InitLogistics /\ [][NextLogistics]_vars

----------------------------------------------------------------------------
\* One DecisionEngine shared by two threads, each calling run(inputs) and
\* then reading last_report.  run takes no lock, so its statements
\* interleave: pc, arg, stages and result are here indexed by thread (the
\* position, the inputs, the local variable report, what run returned and
\* what the read obtained).

Threads == {1, 2}

InitThreads ==
    /\ inputs = None
    /\ book = None
    /\ arg \in [Threads -> EngineInputValues]
    /\ pc = [t \in Threads |-> "run"]
    /\ stages = [t \in Threads |-> None]
    /\ result = [t \in Threads |-> [returned |-> None, read |-> None]]
    /\ engine \in {Some(DecisionEngine_init(b)) :
                      b \in {None} \cup {Some(bk) : bk \in EngineBookValues}}
    /\ history = {}
    /\ database = EmptyDatabase
    /\ fetched = <<>>

\* line 326: report = run_decision_engine(inputs, self._book)
RunCompute(t) ==
    /\ pc[t] = "run"
    /\ stages' = [stages EXCEPT
                     ![t] = Some(run_decision_engine(arg[t],
                                                     Some(Val(engine).book)))]
    /\ pc' = [pc EXCEPT ![t] = "store"]
    /\ UNCHANGED <<inputs, book, arg, result, engine, history, database, fetched>>

\* line 327: self._last_report = report
RunStore(t) ==
    /\ pc[t] = "store"
    /\ engine' = Some([Val(engine) EXCEPT !.last_report = stages[t]])
    /\ pc' = [pc EXCEPT ![t] = "return"]
    /\ UNCHANGED <<inputs, book, arg, stages, result, history, database, fetched>>

\* lines 328-334: logger.info(...); return report
RunReturn(t) ==
    /\ pc[t] = "return"
    /\ result' = [result EXCEPT ![t].returned = stages[t]]
    /\ pc' = [pc EXCEPT ![t] = "read"]
    /\ UNCHANGED <<inputs, book, arg, stages, engine, history, database, fetched>>

\* lines 318-320: engine.last_report, read by the thread whose run returned
ReadLastReport(t) ==
    /\ pc[t] = "read"
    /\ result' = [result EXCEPT ![t].read = Val(engine).last_report]
    /\ pc' = [pc EXCEPT ![t] = "done"]
    /\ UNCHANGED <<inputs, book, arg, stages, engine, history, database, fetched>>

NextThreads ==
    \E t \in Threads :
        RunCompute(t) \/ RunStore(t) \/ RunReturn(t) \/ ReadLastReport(t)

SpecThreads == InitThreads /\ [][NextThreads]_vars

----------------------------------------------------------------------------
\* run_decision_engine called twice with one book: on inputs with optional
\* values missing, and on the same inputs with 0 in place of each missing
\* value.

\* the inputs with every missing optional value replaced by 0
ZeroFilled(in) ==
    [in EXCEPT !.var_semanal_lineup = IF IsNone(@) THEN Some(0) ELSE @,
               !.z_pace = IF IsNone(@) THEN Some(0) ELSE @,
               !.var_cambio_5d = IF IsNone(@) THEN Some(0) ELSE @]

MissingInputValues ==
    {MarketInputs("2024-04-20", l, p, s, z, c, 5000, sp, lg[1], lg[2], FALSE) :
        l \in {None, Some(-1500), Some(1500)}, p \in {1000, 8002},
        s \in {-2000, 1502}, z \in {None, Some(150)},
        c \in {None, Some(300)}, sp \in BOOLEAN, lg \in LogisticsValues}

MissingBookValues ==
    {None}
    \cup {Some(BookState(e, DEFAULT_LIMITE_LONG_PCT * H,
                         DEFAULT_LIMITE_SHORT_PCT * H, 0,
                         DEFAULT_HEDGE_META_PCT * H)) : e \in {-5000, 8000}}

InitMissing ==
    /\ inputs \in MissingInputValues
    /\ book \in MissingBookValues
    /\ arg = Some(ZeroFilled(inputs))
    /\ pc = "call"
    /\ stages = None
    /\ result = None
    /\ engine = None
    /\ history = {}
    /\ database = EmptyDatabase
    /\ fetched = <<>>

\* engine.py: run_decision_engine(inputs, book) on both sets of inputs
RunBoth ==
    /\ pc = "call"
    /\ ~IsNone(inputs) /\ ~IsNone(arg)
    /\ result' = Some(<<run_decision_engine(inputs, book),
                        run_decision_engine(Val(arg), book)>>)
    /\ pc' = "done"
    /\ UNCHANGED <<inputs, book, arg, stages, engine, history, database, fetched>>

NextMissing == RunBoth

SpecMissing == InitMissing /\ [][NextMissing]_vars

----------------------------------------------------------------------------
\* pipeline.py: DataPipeline(sources), then result = pipeline.run(date)
\* up to MaxRuns times
\* inputs holds the sources, arg the date of the last run, stages the data
\* it fetched and result what it returned or raised.

MaxSources == 2

MaxRuns == 2

PipelineDates == {"2024-01-01", "2024-01-02"}

GoodRow ==
    [premium_paranagua |-> Number(100), chicago_front |-> Number(1000),
     usd_brl |-> Number(5), fob_us_gulf |-> Number(1000),
     lineup_bruto |-> Number(50), lineup_liquido |-> Number(40),
     cancelamentos_7d |-> Number(5), exports_weekly_tons |-> Number(1000)]

\* a valid row, and rows with one kind of defect each
FetchedRows ==
    {GoodRow,
     [GoodRow EXCEPT !.premium_paranagua = Missing],
     [GoodRow EXCEPT !.premium_paranagua = Number(0)],
     [GoodRow EXCEPT !.premium_paranagua = Text],
     [GoodRow EXCEPT !.usd_brl = Number(50)],
     [GoodRow EXCEPT !.chicago_front = Number(499)],
     [GoodRow EXCEPT !.lineup_liquido = Number(60)],
     [GoodRow EXCEPT !.lineup_bruto = Text],
     [GoodRow EXCEPT !.lineup_bruto = Number(0), !.lineup_liquido = Number(0)],
     [GoodRow EXCEPT !.cancelamentos_7d = Number(60)],
     [GoodRow EXCEPT !.exports_weekly_tons = Text],
     [c \in DOMAIN GoodRow |-> Missing]}

SourceValues == {DataSourceError} \cup {Return(row) : row \in FetchedRows}

SourceLists ==
    UNION {[1..n -> SourceValues] : n \in 1..MaxSources}

AnomalousValues == {{}, {"premium_paranagua", "usd_brl"}}

InitPipeline ==
    /\ inputs \in SourceLists
    /\ book = None
    /\ arg = None
    /\ pc = "idle"
    /\ stages = None
    /\ result = None
    /\ engine = None
    /\ history = {}
    /\ database = EmptyDatabase
    /\ fetched = <<>>

\* pipeline.py: result = pipeline.run(target_date)
PipelineRun ==
    /\ Cardinality(history) < MaxRuns
    /\ \E target_date \in PipelineDates, anomalous \in AnomalousValues :
           LET out == DataPipeline_run(inputs, target_date, database,
                                       anomalous)
           IN  /\ arg' = Some(target_date)
               /\ stages' = Some([data |-> out.data])
               /\ result' = Some(out.outcome)
               /\ database' = out.database
               /\ fetched' = out.fetched
               /\ history' = history \cup
                      {[run |-> Cardinality(history) + 1,
                        target_date |-> target_date,
                        outcome |-> out.outcome]}
    /\ pc' = "ran"
    /\ UNCHANGED <<inputs, book, engine>>

NextPipeline == PipelineRun

SpecPipeline == InitPipeline /\ [][NextPipeline]_vars

----------------------------------------------------------------------------
\* Properties of a finished run_decision_engine call

RunDone == pc = "done" /\ ~IsNone(stages)

BookUsed == IF IsNone(book) THEN DefaultBook ELSE Val(book)

ActiveTypes(ev) ==
    {ev.active_overrides[i].type : i \in 1..Len(ev.active_overrides)}

\* the priority order and the physical prescriptions (action, sizing) as the
\* specification lists them
StatedPriority ==
    [logistica |-> 1, queda_conjunta |-> 2, armadilha_premio |-> 3,
     competitividade_critica |-> 4, chicago_especulativo |-> 5]

StatedPhysical ==
    [logistica |-> <<"reduzir_forte", -3000>>,
     queda_conjunta |-> <<"reduzir", -2000>>,
     armadilha_premio |-> <<"reduzir_forte", -2500>>,
     competitividade_critica |-> <<"reduzir", -1500>>,
     chicago_especulativo |-> <<"manter", 0>>]

\* the rules whose stated condition holds of the inputs
StatedTriggered(in) ==
    {t \in OverrideType :
        \/ t = "logistica" /\ in.logistics_flag_active
        \/ t = "queda_conjunta" /\ ~IsNone(in.var_semanal_lineup)
           /\ Val(in.var_semanal_lineup) < -1000 /\ in.percentil_premium < 4000
        \/ t = "armadilha_premio" /\ ~IsNone(in.var_semanal_lineup)
           /\ Val(in.var_semanal_lineup) < -1000 /\ in.percentil_premium > 8000
        \/ t = "competitividade_critica" /\ in.spread_adjusted > 1500
        \/ t = "chicago_especulativo" /\ in.chicago_is_spike
           /\ ~in.narrativa_confirmada}

\* C1: the dominant override is the active one of lowest priority number and
\* the final physical recommendation is that rule's prescription (action and
\* sizing), whatever else is active; with nothing active the dominant is
\* None and both final recommendations are the baseline ones.
C1_DominantIsLowestPriority ==
    RunDone =>
        LET ev == Val(stages).override_eval
            act == ActiveTypes(ev)
        IN  IF act = {}
            THEN /\ IsNone(ev.dominant_override)
                 /\ ev.final_physical = Val(stages).scoring.physical
                 /\ ev.final_hedge = Val(stages).scoring.hedge
            ELSE /\ ~IsNone(ev.dominant_override)
                 /\ LET d == Val(ev.dominant_override).type
                    IN  /\ d \in act
                        /\ \A t \in act : StatedPriority[d] <= StatedPriority[t]
                        /\ ev.final_physical.recommendation = StatedPhysical[d][1]
                        /\ ev.final_physical.sizing_pct = StatedPhysical[d][2]

\* logistics dominates three other active rules and replaces a hold baseline
C1_Witness ==
    /\ RunDone
    /\ Cardinality(ActiveTypes(Val(stages).override_eval)) = 4
    /\ Val(stages).override_eval.dominant_override # None
    /\ Val(Val(stages).override_eval.dominant_override).type = "logistica"
    /\ Val(stages).scoring.physical.recommendation = "manter"
    /\ Val(stages).override_eval.final_physical.sizing_pct = -3000

\* C2: the active list holds exactly the rules whose own condition holds
\* (strict comparisons, a missing line-up change triggering neither line-up
\* rule), each once.
C2_ActiveSetIsTriggeredSet ==
    RunDone =>
        LET ev == Val(stages).override_eval
        IN  /\ ActiveTypes(ev) = StatedTriggered(inputs)
            /\ Len(ev.active_overrides) = Cardinality(ActiveTypes(ev))

\* every value on its threshold (line-up -10, percentile 80, spread 15)
\* while logistics and the speculative rule fire: only those two are active
C2_Witness ==
    /\ RunDone
    /\ inputs.var_semanal_lineup = Some(-1000)
    /\ inputs.percentil_premium = 8000
    /\ inputs.spread_adjusted = 1500
    /\ ActiveTypes(Val(stages).override_eval)
           = {"logistica", "chicago_especulativo"}

\* C3: a dominant override without hedge replacement leaves the baseline
\* hedge as the final hedge, also with the speculative rule active, and the
\* final pair is always the dominant rule's replacement or the baseline:
\* no non-dominant rule shows in it.
C3_NonDominantChangesNothing ==
    RunDone =>
        LET ev == Val(stages).override_eval
            sc == Val(stages).scoring
            d == Val(ev.dominant_override).type
        IN  /\ ( /\ ~IsNone(ev.dominant_override)
                 /\ d \in {"logistica", "queda_conjunta", "armadilha_premio",
                           "competitividade_critica"} )
               => /\ ev.final_hedge = sc.hedge
                  /\ ev.final_physical.recommendation = StatedPhysical[d][1]
                  /\ ev.final_physical.sizing_pct = StatedPhysical[d][2]
            /\ ( /\ ~IsNone(ev.dominant_override)
                 /\ d = "chicago_especulativo" )
               => /\ ev.final_hedge = HedgeResult("aumentar_forte", "forte", 2000)
                  /\ ev.final_physical.recommendation = "manter"

\* the speculative rule is active below a dominant competitiveness rule and
\* the +10pp spike baseline hedge stays
C3_Witness ==
    /\ RunDone
    /\ "chicago_especulativo" \in ActiveTypes(Val(stages).override_eval)
    /\ Val(stages).override_eval.dominant_override # None
    /\ Val(Val(stages).override_eval.dominant_override).type
           = "competitividade_critica"
    /\ Val(stages).scoring.hedge.delta_pp = 1000
    /\ Val(stages).override_eval.final_hedge.delta_pp = 1000

\* C4: spike without confirmed narrative and no rule of priority 1-4
\* triggered: final physical is hold / moderate / 0 and final hedge is
\* strong-increase / strong / +20pp, for every percentile and score.
C4_SpeculativeAlone ==
    ( /\ RunDone
      /\ inputs.chicago_is_spike
      /\ ~inputs.narrativa_confirmada
      /\ StatedTriggered(inputs) = {"chicago_especulativo"} )
    => /\ Val(stages).override_eval.final_physical
              = PhysicalResult("manter", "moderada", 0)
       /\ Val(stages).override_eval.final_hedge
              = HedgeResult("aumentar_forte", "forte", 2000)

\* the spike-forced +10pp baseline hedge and an increase baseline are both
\* discarded
C4_Witness ==
    /\ RunDone
    /\ inputs.chicago_is_spike
    /\ ~inputs.narrativa_confirmada
    /\ StatedTriggered(inputs) = {"chicago_especulativo"}
    /\ Val(stages).scoring.hedge = HedgeResult("aumentar", "moderada", 1000)
    /\ Val(stages).scoring.physical.recommendation = "aumentar_forte"
    /\ Val(stages).override_eval.final_hedge.delta_pp = 2000

\* C5: modulate_by_book replaces the physical recommendation by hold /
\* neutral / 0 exactly at (increase variant and exposure >= long limit) or
\* (decrease variant and exposure <= short limit), the hedge recommendation
\* by hold / neutral / 0 exactly at (increase variant and hedge >= target +
\* 20), and passes everything else through, override-dictated or not.
C5_ModulationGuards ==
    RunDone =>
        LET p == Val(stages).override_eval.final_physical
            h == Val(stages).override_eval.final_hedge
            m == Val(stages).modulated
            b == BookUsed
            physical_guard ==
                \/ /\ p.recommendation \in {"aumentar", "aumentar_forte"}
                   /\ b.exposicao_fisica_pct >= b.limite_long_pct
                \/ /\ p.recommendation \in {"reduzir", "reduzir_forte"}
                   /\ b.exposicao_fisica_pct <= b.limite_short_pct
            hedge_guard ==
                /\ h.recommendation \in {"aumentar", "aumentar_forte"}
                /\ b.hedge_atual_pct >= b.hedge_meta_pct + 2000
        IN  /\ m.physical_was_modulated = physical_guard
            /\ m.hedge_was_modulated = hedge_guard
            /\ m.physical = IF physical_guard
                            THEN PhysicalResult("manter", "neutra", 0) ELSE p
            /\ m.hedge = IF hedge_guard
                         THEN HedgeResult("manter", "neutra", 0) ELSE h

\* the logistics -30 strong-decrease becomes hold at the short limit while
\* logistics stays the dominant override of the report
C5_Witness ==
    /\ RunDone
    /\ Val(result).override_dominante = Some("logistica")
    /\ Val(stages).override_eval.final_physical.sizing_pct = -3000
    /\ BookUsed.exposicao_fisica_pct = BookUsed.limite_short_pct
    /\ Val(stages).modulated.physical = PhysicalResult("manter", "neutra", 0)
    /\ Val(result).recomendacao_fisica.acao = "manter"

\* C6: the reported physical sizing s never carries the exposure past a
\* limit (s > 0: exposure + s <= long limit; s < 0: exposure + s >= short
\* limit) and is the recommended sizing when that fits in the headroom and
\* the headroom otherwise.
C6_SizingWithinHeadroom ==
    RunDone =>
        LET b == BookUsed
            s == Val(result).recomendacao_fisica.sizing_pct
            rec == Val(stages).modulated.physical.sizing_pct
            long_room == b.limite_long_pct - b.exposicao_fisica_pct
            short_room == b.exposicao_fisica_pct - b.limite_short_pct
        IN  /\ s > 0 => b.exposicao_fisica_pct + s <= b.limite_long_pct
            /\ s < 0 => b.exposicao_fisica_pct + s >= b.limite_short_pct
            /\ rec > 0 => s = (IF rec <= long_room THEN rec ELSE long_room)
            /\ rec < 0 => s = (IF -rec <= short_room THEN rec ELSE -short_room)
            /\ rec = 0 => s = 0

\* C7: in every report the magnitude sign matches the action: increase
\* variants have a positive magnitude, decrease variants a negative one and
\* hold has zero, for the physical sizing and for the hedge delta.
C7_SignMatchesAction ==
    RunDone =>
        LET f == Val(result).recomendacao_fisica
            h == Val(result).recomendacao_hedge
        IN  /\ f.acao \in {"aumentar", "aumentar_forte"} => f.sizing_pct > 0
            /\ f.acao \in {"reduzir", "reduzir_forte"} => f.sizing_pct < 0
            /\ f.acao = "manter" => f.sizing_pct = 0
            /\ h.acao \in {"aumentar", "aumentar_forte"} => h.delta_pp > 0
            /\ h.acao \in {"reduzir", "reduzir_forte"} => h.delta_pp < 0
            /\ h.acao = "manter" => h.delta_pp = 0

\* C8: modulacao_aplicada is true exactly when the reported physical
\* recommendation (action, intensity, effective sizing) or the reported
\* hedge recommendation (action, intensity, delta) differs from the
\* override-resolved one that entered the book stage.
C8_FlagIffAltered ==
    RunDone =>
        LET f == Val(result).recomendacao_fisica
            h == Val(result).recomendacao_hedge
            p == Val(stages).override_eval.final_physical
            g == Val(stages).override_eval.final_hedge
        IN  Val(result).modulacao_aplicada
            = ( \/ <<f.acao, f.intensidade, f.sizing_pct>>
                     # <<p.recommendation, p.intensity, p.sizing_pct>>
                \/ <<h.acao, h.intensidade, h.delta_pp>>
                     # <<g.recommendation, g.intensity, g.delta_pp>> )

----------------------------------------------------------------------------
\* Properties of a finished scoring call

ScoreDone == pc = "done" /\ ~IsNone(arg)

\* C9: classification and baseline physical recommendation use the same
\* inclusive cut points: >= 80 very-strong and strong-increase +25; [65, 80)
\* strong and increase +15; <= 20 very-weak and strong-decrease -25; (20, 35]
\* weak and decrease -15; otherwise neutral and hold 0.
C9_BandsAgree ==
    ScoreDone =>
        LET sc == Val(arg)
            c == Val(result).classification
            r == Val(result).physical
            pair == <<c, r.recommendation, r.sizing_pct>>
        IN  IF sc >= 80 * SU THEN pair = <<"muito_forte", "aumentar_forte", 2500>>
            ELSE IF sc >= 65 * SU THEN pair = <<"forte", "aumentar", 1500>>
            ELSE IF sc <= 20 * SU THEN pair = <<"muito_fraco", "reduzir_forte", -2500>>
            ELSE IF sc <= 35 * SU THEN pair = <<"fraco", "reduzir", -1500>>
            ELSE pair = <<"neutro", "manter", 0>>

\* the score exactly on the top cut point is in the top band on both sides
C9_Witness ==
    /\ ScoreDone
    /\ Val(arg) = 80 * SU
    /\ Val(result).classification = "muito_forte"
    /\ Val(result).physical.recommendation = "aumentar_forte"

\* the intensity by score extremity as stated: > 80 or < 20 strong,
\* otherwise > 65 or < 35 moderate, otherwise neutral
StatedIntensity(sc) ==
    IF sc > 80 * SU \/ sc < 20 * SU THEN "forte"
    ELSE IF sc > 65 * SU \/ sc < 35 * SU THEN "moderada"
    ELSE "neutra"

ReportFields ==
    {"data_referencia", "score_fisico", "classificacao",
     "recomendacao_fisica", "recomendacao_hedge", "componentes",
     "overrides_ativos", "override_dominante", "modulacao_aplicada",
     "modulacao_razao", "justificativa"}

\* C14: whichever of the optional inputs (weekly line-up change, demand
\* z-score, FX 5-day change) are missing, run_decision_engine can run and
\* returns a full DecisionReport, and the component score of each missing
\* input is exactly 50.
C14_MissingInputsScoreNeutral ==
    RunDone =>
        LET comp == Val(stages).scoring.components
            rep == Val(result).componentes
        IN  /\ DOMAIN Val(result) = ReportFields
            /\ IsNone(inputs.var_semanal_lineup)
               => comp.lineup = 50 * CU /\ rep.lineup.score = 50 * CU
            /\ IsNone(inputs.z_pace)
               => comp.demand = 50 * CU /\ rep.demanda.score = 50 * CU
            /\ IsNone(inputs.var_cambio_5d)
               => comp.cambio = 50 * CU /\ rep.cambio.score = 50 * CU

\* all three optional inputs missing at once
C14_Witness ==
    /\ RunDone
    /\ IsNone(inputs.var_semanal_lineup)
    /\ IsNone(inputs.z_pace)
    /\ IsNone(inputs.var_cambio_5d)
    /\ DOMAIN Val(result) = ReportFields
    /\ Val(stages).scoring.components.lineup = 50 * CU
    /\ Val(stages).scoring.components.demand = 50 * CU
    /\ Val(stages).scoring.components.cambio = 50 * CU

\* the five component scores under the names the justification uses
ScoreByDriverName(comp) ==
    [lineup |-> comp.lineup, premio |-> comp.premium,
     competitividade |-> comp.competitiveness, demanda |-> comp.demand,
     cambio |-> comp.cambio]

\* the names the "Drivers" part of the justification lists
DriverNames(report) ==
    {report.justificativa[2][2][i][1] : i \in 1..2}

\* C17: the drivers named in the justification are the two component scores
\* furthest from the midpoint 50 among all five (line-up, premium,
\* competitiveness, demand, FX): no component left out of the drivers has a
\* larger |score - 50| than a component named as driver.
C17_DriversFurthestOfFive ==
    RunDone =>
        LET sc == ScoreByDriverName(Val(stages).scoring.components)
            named == DriverNames(Val(result))
        IN  \A out \in (DOMAIN sc) \ named, d \in named :
                Abs(sc[out] - 50 * CU) <= Abs(sc[d] - 50 * CU)

\* C18: in every report the list of active overrides is ordered by strictly
\* increasing priority, so no identifier is repeated; the dominant override
\* is null exactly when the list is empty and is the first element of the
\* list otherwise.
C18_ActiveListOrdered ==
    RunDone =>
        LET act == Val(result).overrides_ativos
            dom == Val(result).override_dominante
        IN  /\ \A i \in 1..Len(act) : act[i] \in OverrideType
            /\ \A i \in 1..Len(act), j \in 1..Len(act) :
                   i < j => StatedPriority[act[i]] < StatedPriority[act[j]]
            /\ IsNone(dom) <=> act = <<>>
            /\ act # <<>> => dom = Some(act[1])

\* four rules active at once, listed from priority 1 to priority 5
C18_Witness ==
    /\ RunDone
    /\ Val(result).overrides_ativos
           = <<"logistica", "queda_conjunta", "competitividade_critica",
               "chicago_especulativo">>
    /\ Val(result).override_dominante = Some("logistica")

\* the default book as stated: exposure 0, long limit 80, short limit -50,
\* current hedge 0, hedge target 60
StatedDefaultBook ==
    [exposicao_fisica_pct |-> 0, limite_long_pct |-> 8000,
     limite_short_pct |-> -5000, hedge_atual_pct |-> 0,
     hedge_meta_pct |-> 6000]

\* C19: with no BookState supplied (run_decision_engine with book = None, or
\* DecisionEngine() built without a book) the default book is the stated one
\* and is permissive for every input: no guard fires, the headroom clamp
\* does not bind, modulation_applied is false, modulation_reason is null,
\* and the reported physical and hedge recommendations are the
\* override-resolved ones with their full sizing (from -30 to +25).
C19_DefaultBookPermissive ==
    (RunDone /\ IsNone(book)) =>
        LET p == Val(stages).override_eval.final_physical
            g == Val(stages).override_eval.final_hedge
            m == Val(stages).modulated
            f == Val(result).recomendacao_fisica
            h == Val(result).recomendacao_hedge
        IN  /\ BookUsed = StatedDefaultBook
            /\ DecisionEngine_init(None).book = StatedDefaultBook
            /\ ~m.physical_was_modulated /\ ~m.hedge_was_modulated
            /\ m.physical = p /\ m.hedge = g
            /\ calculate_effective_sizing(m.physical.sizing_pct, BookUsed)
                   = p.sizing_pct
            /\ ~Val(result).modulacao_aplicada
            /\ IsNone(Val(result).modulacao_razao)
            /\ <<f.acao, f.intensidade, f.sizing_pct>>
                   = <<p.recommendation, p.intensity, p.sizing_pct>>
            /\ <<h.acao, h.intensidade, h.delta_pp>>
                   = <<g.recommendation, g.intensity, g.delta_pp>>
            /\ -3000 <= f.sizing_pct /\ f.sizing_pct <= 2500

\* no book given and the largest sizing there is, the logistics -30, is
\* reported in full next to a +20pp hedge increase
C19_Witness ==
    /\ RunDone
    /\ IsNone(book)
    /\ Val(result).override_dominante = Some("logistica")
    /\ Val(result).recomendacao_fisica.sizing_pct = -3000
    /\ Val(result).recomendacao_hedge.delta_pp = 2000
    /\ ~Val(result).modulacao_aplicada

----------------------------------------------------------------------------
\* C24: among simultaneously active overrides the most conservative one
\* prevails: the physical sizing the dominant override prescribes is less
\* than or equal to the physical sizing every other active override
\* prescribes.
C24_DominantMostConservative ==
    RunDone =>
        LET ev == Val(stages).override_eval
            act == ev.active_overrides
        IN  \A i \in 1..Len(act) :
                /\ ~IsNone(ev.dominant_override)
                /\ ~IsNone(act[i].physical_action)
                /\ ~IsNone(Val(ev.dominant_override).physical_action)
                /\ Val(Val(ev.dominant_override).physical_action).sizing_pct
                       <= Val(act[i].physical_action).sizing_pct
                /\ ev.final_physical.sizing_pct
                       <= Val(act[i].physical_action).sizing_pct

\* the joint drop (-20) dominates the competitiveness rule (-15) and the
\* speculative rule (0)
C24_Witness ==
    /\ RunDone
    /\ ActiveTypes(Val(stages).override_eval)
           = {"queda_conjunta", "competitividade_critica",
              "chicago_especulativo"}
    /\ Val(stages).override_eval.final_physical.sizing_pct = -2000

\* C25: whenever at least one override is active the physical
\* recommendation of the report is never increase or strong-increase and
\* its sizing is never positive, at every score and with every book; the
\* dominant override's physical replacement is applied whatever the
\* baseline, also when the baseline reduces more than the override
\* prescribes.
C25_NoIncreaseUnderOverride ==
    (RunDone /\ Val(stages).override_eval.active_overrides # <<>>) =>
        LET ev == Val(stages).override_eval
            f == Val(result).recomendacao_fisica
            d == Val(ev.dominant_override).type
        IN  /\ f.acao \notin {"aumentar", "aumentar_forte"}
            /\ f.sizing_pct <= 0
            /\ ev.final_physical.recommendation = StatedPhysical[d][1]
            /\ ev.final_physical.sizing_pct = StatedPhysical[d][2]
            /\ Val(stages).modulated.physical
                   \in {ev.final_physical, PhysicalResult("manter", "neutra", 0)}

\* a strong-decrease baseline (-25) is replaced by the competitiveness
\* rule's -15, which the report carries
C25_Witness ==
    /\ RunDone
    /\ Val(stages).scoring.physical.sizing_pct = -2500
    /\ Val(stages).override_eval.dominant_override # None
    /\ Val(Val(stages).override_eval.dominant_override).type
           = "competitividade_critica"
    /\ Val(result).recomendacao_fisica.acao = "reduzir"
    /\ Val(result).recomendacao_fisica.sizing_pct = -1500

\* C26: the joint-drop and premium-trap overrides are never both active, so
\* the active set never holds more than four overrides and at most one of
\* the two line-up-driven rules.
C26_LineupRulesExclusive ==
    RunDone =>
        LET act == ActiveTypes(Val(stages).override_eval)
        IN  /\ ~({"queda_conjunta", "armadilha_premio"} \subseteq act)
            /\ Cardinality(act) <= 4
            /\ Len(Val(stages).override_eval.active_overrides) <= 4
            /\ Len(Val(result).overrides_ativos) <= 4

\* four rules active, the premium trap being the line-up-driven one
C26_Witness ==
    /\ RunDone
    /\ ActiveTypes(Val(stages).override_eval)
           = {"logistica", "armadilha_premio", "competitividade_critica",
              "chicago_especulativo"}
    /\ Len(Val(result).overrides_ativos) = 4

\* the reasons of a report whose text starts with one of the given openings
ReasonsOf(report, openings) ==
    LET entries == IF IsNone(report.modulacao_razao) THEN <<>>
                   ELSE Val(report.modulacao_razao)
    IN  {i \in 1..Len(entries) : entries[i][1] \in openings}

\* C28: in every report modulation_reason is non-null exactly when
\* modulation_applied is true, and holds one reason per guard that fired: at
\* most one physical reason (the long-limit and short-limit guards never
\* fire in the same run) and at most one hedge reason.
C28_ReasonPerGuard ==
    RunDone =>
        LET rep == Val(result)
            m == Val(stages).modulated
            physical == ReasonsOf(rep, {"Exposicao no limite long",
                                        "Exposicao no limite short"})
            hedge == ReasonsOf(rep, {"Hedge acima da meta + tolerancia"})
            entries == IF IsNone(rep.modulacao_razao) THEN <<>>
                       ELSE Val(rep.modulacao_razao)
        IN  /\ ~IsNone(rep.modulacao_razao) <=> rep.modulacao_aplicada
            /\ Cardinality(physical) = IF m.physical_was_modulated THEN 1 ELSE 0
            /\ Cardinality(hedge) = IF m.hedge_was_modulated THEN 1 ELSE 0
            /\ Len(entries) = Cardinality(physical) + Cardinality(hedge)
            /\ ~IsNone(rep.modulacao_razao) => entries # <<>>

\* the short-limit guard and the hedge guard fire in one run: two reasons
C28_Witness ==
    /\ RunDone
    /\ Val(result).modulacao_aplicada
    /\ Val(result).modulacao_razao # None
    /\ Len(Val(Val(result).modulacao_razao)) = 2
    /\ Val(Val(result).modulacao_razao)[1][1] = "Exposicao no limite short"
    /\ Val(Val(result).modulacao_razao)[2][1]
           = "Hedge acima da meta + tolerancia"

\* Properties of a finished compute_scoring call

ScoringDone == pc = "done" /\ ~IsNone(inputs) /\ ~IsNone(result)

\* the hedge table as stated: (action, delta) by percentile band
StatedHedgeBand(pct) ==
    IF pct >= 8000 THEN <<"aumentar_forte", 2000>>
    ELSE IF pct >= 6500 THEN <<"aumentar", 1000>>
    ELSE IF pct <= 2000 THEN <<"reduzir_forte", -2000>>
    ELSE IF pct <= 3500 THEN <<"reduzir", -1000>>
    ELSE <<"manter", 0>>

----------------------------------------------------------------------------
\* Properties of a finished compute_score_fisico call

AggregateDone == pc = "done" /\ ~IsNone(arg) /\ ~IsNone(result)

\* the weights as stated, in percent
StatedWeights ==
    [lineup |-> 30, premium |-> 25, competitiveness |-> 20, demand |-> 15,
     cambio |-> 10]

----------------------------------------------------------------------------
\* Properties of a finished compute_component_scores call

ComponentsDone == pc = "done" /\ ~IsNone(arg) /\ ~IsNone(result)

\* an increasing map with domain [lo, hi]: in range, 0 at and below lo, 100
\* at and above hi
IncreasingOn(x, sc, lo, hi) ==
    /\ 0 <= sc /\ sc <= 100 * CU
    /\ x <= lo => sc = 0
    /\ x >= hi => sc = 100 * CU

\* a decreasing map with domain [lo, hi]: 100 at and below lo, 0 at and
\* above hi
DecreasingOn(x, sc, lo, hi) ==
    /\ 0 <= sc /\ sc <= 100 * CU
    /\ x <= lo => sc = 100 * CU
    /\ x >= hi => sc = 0

\* C13: every component score map returns a value in [0, 100], is monotone
\* in its declared direction (line-up and demand increasing over [-15, 15]
\* and [-1.5, 1.5], competitiveness and FX decreasing over [-20, 20] and
\* [-3, 3], premium the identity on [0, 100]), returns exactly 0 or 100 at
\* the domain boundaries and the same 0 or 100 beyond them.
C13_ComponentMapsClampedMonotone ==
    ComponentsDone =>
        LET x == Val(arg)[1]
            y == Val(arg)[2]
            sx == Val(result)[1]
            sy == Val(result)[2]
        IN  /\ IncreasingOn(Val(x.var_semanal_lineup), sx.lineup, -1500, 1500)
            /\ IncreasingOn(x.percentil_premium, sx.premium, 0, 10000)
            /\ DecreasingOn(x.spread_adjusted, sx.competitiveness, -2000, 2000)
            /\ IncreasingOn(Val(x.z_pace), sx.demand, -150, 150)
            /\ DecreasingOn(Val(x.var_cambio_5d), sx.cambio, -300, 300)
            /\ (0 <= x.percentil_premium /\ x.percentil_premium <= 10000)
               => sx.premium * H = x.percentil_premium * CU
            /\ Val(x.var_semanal_lineup) <= Val(y.var_semanal_lineup)
               => sx.lineup <= sy.lineup
            /\ x.percentil_premium <= y.percentil_premium
               => sx.premium <= sy.premium
            /\ x.spread_adjusted <= y.spread_adjusted
               => sx.competitiveness >= sy.competitiveness
            /\ Val(x.z_pace) <= Val(y.z_pace) => sx.demand <= sy.demand
            /\ Val(x.var_cambio_5d) <= Val(y.var_cambio_5d)
               => sx.cambio >= sy.cambio

\* the first set of raw values lies at twice the distance below every domain
\* (line-up -30, spread -40) and scores the same 0 or 100 as the second set,
\* which lies on the lower boundaries
C13_Witness ==
    /\ ComponentsDone
    /\ Val(arg)[1].var_semanal_lineup = Some(-3000)
    /\ Val(arg)[2].var_semanal_lineup = Some(-1500)
    /\ Val(arg)[1].spread_adjusted = -4000
    /\ Val(result)[1] = Val(result)[2]
    /\ Val(result)[1].lineup = 0
    /\ Val(result)[1].competitiveness = 100 * CU

----------------------------------------------------------------------------
\* Properties of modulate_by_book applied twice

ModulatedTwice == pc = "again" /\ ~IsNone(result)

\* C15: book modulation is idempotent: modulate_by_book applied to its own
\* output with the same book returns the same physical and hedge
\* recommendations, fires no guard (both was_modulated flags false) and
\* gives no modulation reason.
C15_ModulationIdempotent ==
    ModulatedTwice =>
        LET first == Val(result)[1]
            second == Val(result)[2]
        IN  /\ second.physical = first.physical
            /\ second.hedge = first.hedge
            /\ ~second.physical_was_modulated
            /\ ~second.hedge_was_modulated
            /\ IsNone(second.modulation_reason)

\* both guards fired on the first application (a strong increase at the
\* long limit, a hedge increase over the tolerance) and none on the second
C15_Witness ==
    /\ ModulatedTwice
    /\ Val(arg).physical.recommendation = "aumentar_forte"
    /\ Val(result)[1].physical_was_modulated
    /\ Val(result)[1].hedge_was_modulated
    /\ Val(result)[2].physical = PhysicalResult("manter", "neutra", 0)
    /\ ~Val(result)[2].physical_was_modulated
    /\ ~Val(result)[2].hedge_was_modulated

----------------------------------------------------------------------------
\* Properties of the runs of a DecisionEngine

----------------------------------------------------------------------------
\* Properties of a finished normalize_premium call

PremiumDone == pc = "done" /\ ~IsNone(arg) /\ ~IsNone(result)

\* twice the stated rank of value v in sample hs: 2 * (count strictly below)
\* + count equal
TwiceRank(v, hs) ==
    2 * Cardinality({i \in 1..Len(hs) : hs[i] < v})
    + Cardinality({i \in 1..Len(hs) : hs[i] = v})

\* the call fails exactly on an empty sample or a null premium, and a
\* returned percentile lies in [0, 100] and does not decrease when the value
\* grows over the same sample
PremiumFailsAndOrders ==
    LET a == Val(arg)
        out == Val(result).outcome
    IN  /\ Raised(out) <=> (a.historical = <<>> \/ IsNone(a.premium))
        /\ ~Raised(out) =>
               /\ 0 <= out.returned.percentile
               /\ out.returned.percentile <= 100 * H
               /\ out.returned.historical_count = Len(a.historical)
               /\ \A v \in PremiumRawValues :
                      v >= Val(a.premium) =>
                          normalize_premium(a.dt, Some(v), a.historical)
                              .outcome.returned.percentile
                          >= out.returned.percentile

\* C20 as stated: normalize_premium fails exactly when the sample is empty or
\* the premium is null; for every non-empty sample, also one of fewer than
\* 30 values, the percentile returned is exactly (count strictly below +
\* half the count equal) / sample size x 100, lies in [0, 100] and is
\* non-decreasing in the value.
C20_PercentileExact ==
    PremiumDone =>
        /\ PremiumFailsAndOrders
        /\ ~Raised(Val(result).outcome) =>
               Val(result).outcome.returned.percentile
                   * 2 * Len(Val(arg).historical)
               = TwiceRank(Val(Val(arg).premium), Val(arg).historical)
                 * 100 * H

\* C20 as amended: the same, with the percentile returned being (count
\* strictly below + half the count equal) / sample size x 100 rounded to two
\* decimals, so within 0.005 of it.
C20_PercentileRounded ==
    PremiumDone =>
        /\ PremiumFailsAndOrders
        /\ ~Raised(Val(result).outcome) =>
               2 * Abs(Val(result).outcome.returned.percentile
                           * 2 * Len(Val(arg).historical)
                       - TwiceRank(Val(Val(arg).premium), Val(arg).historical)
                         * 100 * H)
               <= 2 * Len(Val(arg).historical)

\* one of three samples lies below the value and none equals it: the call
\* warns of the short sample and returns 33.33 for 33.333...
C20_Witness ==
    /\ PremiumDone
    /\ Val(arg).historical = <<1, 3, 3>>
    /\ Val(arg).premium = Some(2)
    /\ Val(result).warned
    /\ ~Raised(Val(result).outcome)
    /\ Val(result).outcome.returned.percentile = 3333

----------------------------------------------------------------------------
\* Properties of a finished compute_logistics_flag call

LogisticsDone == pc = "done" /\ ~IsNone(arg) /\ ~IsNone(result)

\* the triggers that fire as stated: wait time > 15 days with at least 2
\* consecutive weeks above, loading rate < 0.70, a non-empty manual event
StatedTriggers(a) ==
    {t \in {"espera_navios", "taxa_embarque", "evento_manual"} :
        \/ /\ t = "espera_navios"
           /\ ~IsNone(a.wait_time_days) /\ Val(a.wait_time_days) > 1500
           /\ a.wait_time_weeks_above >= 2
        \/ /\ t = "taxa_embarque"
           /\ ~IsNone(a.loading_rate) /\ Val(a.loading_rate) < 70
        \/ /\ t = "evento_manual"
           /\ ~IsNone(a.manual_event) /\ Val(a.manual_event) # ""}

\* C21: compute_logistics_flag returns an active flag exactly when at least
\* one of the three triggers fires; the reason holds one entry for each
\* firing trigger and none for another, and is absent exactly when the flag
\* is inactive.
C21_FlagIffTrigger ==
    LogisticsDone =>
        LET fired == StatedTriggers(Val(arg))
            flag == Val(result)
            entries == IF IsNone(flag.reason) THEN <<>> ELSE Val(flag.reason)
        IN  /\ flag.is_active <=> fired # {}
            /\ IsNone(flag.reason) <=> ~flag.is_active
            /\ {entries[i][1] : i \in 1..Len(entries)} = fired
            /\ Len(entries) = Cardinality(fired)

\* all three triggers fire, the wait one with exactly two weeks above
C21_Witness ==
    /\ LogisticsDone
    /\ Val(arg).wait_time_weeks_above = 2
    /\ Val(result).is_active
    /\ ~IsNone(Val(result).reason)
    /\ Len(Val(Val(result).reason)) = 3

\* the reports DecisionEngine.run returned so far
RunReports == {h.report : h \in {r \in history : r.via = "run"}}

\* one step of the object: a step that changes the book leaves last_report,
\* a step that changes last_report leaves the book and stores the report
\* just returned, which was computed with the book current at the step
EngineStep ==
    /\ (IsNone(engine) /\ ~IsNone(engine'))
       => IsNone(Val(engine').last_report)
    /\ (~IsNone(engine) /\ ~IsNone(engine')) =>
          /\ Val(engine').book # Val(engine).book
             => Val(engine').last_report = Val(engine).last_report
          /\ Val(engine').last_report # Val(engine).last_report
             => /\ Val(engine').book = Val(engine).book
                /\ Val(engine').last_report = result'
                /\ \E in \in EngineInputValues :
                       result' = Some(run_decision_engine(
                                          in, Some(Val(engine).book)))
          /\ RunReports' # RunReports
             => /\ Val(engine').book = Val(engine).book
                /\ Val(engine').last_report = result'

\* C22: over any sequence of run and update_book calls on one
\* DecisionEngine, last_report is None exactly while run was never called
\* and otherwise is the report the most recent run returned, computed with
\* the book current at that run; update_book changes only the book and run
\* changes only last_report.
C22_LastReportFollowsRuns ==
    /\ [](~IsNone(engine) =>
             /\ IsNone(Val(engine).last_report) <=> RunReports = {}
             /\ ~IsNone(Val(engine).last_report)
                => Val(Val(engine).last_report) \in RunReports)
    /\ [][EngineStep]_vars

\* the stored report was computed with a book that update_book has since
\* replaced: no inputs give it with the current book
C22_Witness ==
    /\ ~IsNone(engine)
    /\ ~IsNone(Val(engine).last_report)
    /\ \A in \in EngineInputValues :
           Val(Val(engine).last_report)
               # run_decision_engine(in, Some(Val(engine).book))

----------------------------------------------------------------------------
\* Properties of two threads sharing a DecisionEngine

\* C23: with one DecisionEngine shared by two threads that call run
\* concurrently, a thread that reads last_report right after its own run
\* returned obtains the report its own run returned, under every
\* interleaving.
C23_ReadsOwnReport ==
    \A t \in Threads :
        pc[t] = "done" => result[t].read = result[t].returned

----------------------------------------------------------------------------
\* Properties of the two runs with and without missing values

BothDone == pc = "done" /\ ~IsNone(inputs) /\ ~IsNone(result)

\* C27: a missing optional input is indistinguishable from the value 0:
\* replacing a missing weekly line-up change, demand z-score or FX change by
\* 0 yields a DecisionReport equal in every field.
C27_MissingEqualsZero ==
    BothDone => Val(result)[1] = Val(result)[2]

\* all three optional inputs are missing in the first run and 0 in the
\* second, under an active logistics override, and the reports are equal
C27_Witness ==
    /\ BothDone
    /\ IsNone(inputs.var_semanal_lineup)
    /\ IsNone(inputs.z_pace)
    /\ IsNone(inputs.var_cambio_5d)
    /\ Val(arg).var_semanal_lineup = Some(0)
    /\ Val(arg).var_cambio_5d = Some(0)
    /\ Val(result)[1].override_dominante = Some("logistica")
    /\ Val(result)[1].componentes = Val(result)[2].componentes

----------------------------------------------------------------------------
\* Properties of DataPipeline.run

\* the sources whose fetch returns a row
Fetchable == {i \in 1..Len(inputs) : ~Raised(inputs[i])}

\* a step that is one call of run, seen from the state before and after it
RunFetchesFirstOrFails ==
    IF Fetchable = {}
    THEN /\ fetched' = [i \in 1..Len(inputs) |-> i]
         /\ ~Raised(Val(result'))
         /\ Val(result').returned.status = "failed"
         /\ Val(result').returned.records_processed = 0
         /\ Val(result').returned.records_failed = 1
         /\ Val(result').returned.missing_rate = PerMille
         /\ database'.market_data = database.market_data
         /\ Len(database'.pipeline_runs) = Len(database.pipeline_runs) + 1
         /\ SubSeq(database'.pipeline_runs, 1, Len(database.pipeline_runs))
                = database.pipeline_runs
         /\ database'.pipeline_runs[Len(database'.pipeline_runs)].status
                = "failed"
    ELSE \E k \in Fetchable :
            /\ \A j \in 1..(k - 1) : Raised(inputs[j])
            /\ fetched' = [i \in 1..k |-> i]
            /\ Val(stages').data = Some(inputs[k].returned)
            /\ ~Raised(Val(result')) =>
                   /\ Val(result').returned.records_processed = 1
                   /\ Val(result').returned.missing_rate
                          = calculate_missing_rate(inputs[k].returned)

\* C29: DataPipeline.run calls fetch on its sources in list order, stops at
\* the first one that does not raise DataSourceError and works on its data,
\* never calling a later source; when every source raises it returns status
\* "failed" with 0 processed, 1 failed and missing rate 1.0, leaves
\* market_data as it was and appends exactly one pipeline_runs entry, of
\* status "failed".
C29_FirstSourceElseFailed ==
    [][history' # history => RunFetchesFirstOrFails]_vars

\* two runs of a pipeline whose two sources both raise: each called both in
\* order, returned "failed" and logged one failed run, nothing was inserted
C29_Witness ==
    /\ pc = "ran"
    /\ Len(inputs) = 2
    /\ Fetchable = {}
    /\ fetched = <<1, 2>>
    /\ Cardinality(history) = 2
    /\ Val(result) = Return(PipelineResult("failed", 0, 1, PerMille, 0,
                                           <<"Todas as fontes falharam">>))
    /\ database.market_data = {}
    /\ Len(database.pipeline_runs) = 2
    /\ \A i \in 1..2 : database.pipeline_runs[i].status = "failed"

\* the last run fetched a row
FetchSucceeded == pc = "ran" /\ ~IsNone(Val(stages).data)

\* C30: after a successful fetch, run always stores the fetched row in
\* market_data under the run's date and returns status "success" when
\* validation found no issue and "partial" when it found one, whatever the
\* issues are; "failed" is returned only when every source failed to fetch.
C30_FetchedRowInserted ==
    /\ FetchSucceeded =>
           /\ ~Raised(Val(result))
           /\ Val(result).returned.status \in {"success", "partial"}
           /\ Val(result).returned.status = "success"
                  <=> Val(result).returned.errors = <<>>
           /\ \E row \in database.market_data :
                  /\ row.date = Val(arg)
                  /\ \A c \in DOMAIN Val(Val(stages).data) :
                         row[c] = Val(Val(stages).data)[c]
    /\ (pc = "ran" /\ ~Raised(Val(result))
            /\ Val(result).returned.status = "failed") => Fetchable = {}

====
